---- MODULE Spec2Model ----
(***************************************************************************)
(* Model of the GoFileRoom downloader: the Document / Client aggregate of  *)
(* models.py and the page-driven export state machine of main.py           *)
(* (export_documents, download_multiple_documents_in_page,                 *)
(* download_single_document_in_page and the per-client part of main()).    *)
(*                                                                         *)
(* Text is modelled as sequences of one-character strings so that name     *)
(* derivation, case folding, extension splitting and substring matching    *)
(* are computed, not assumed.                                              *)
(***************************************************************************)
EXTENDS Integers, Sequences, FiniteSets, TLC

VARIABLES
    pc,                   \* position of main() / export_documents
    max_total_documents,  \* Client.max_total_documents
    client_folder_path,   \* Client.client_folder_path (<<>> is "")
    document_list,        \* Client.document_list: sequence of Document records
    redownload_if_exists, \* Document.REDOWNLOAD_IF_EXISTS, fixed for a run
    disk,                 \* files present in the client's output tree (paths)
    download_dir,         \* files in the staging directory, oldest first
    zip_folder,           \* files in the client's zip extraction folder
    doc_rows,             \* document log: document id -> [status, desc]
    client_row,           \* the client's row of the client list sheet
    page_num,             \* loop variable of the page loop
    total_pages,          \* total_pages of export_documents
    retry_attempt,        \* loop variable of the retry loop
    row_index,            \* loop variable of the per-row fallback loop
    attempts,             \* the attempts of the retry loop on the current page
    files_todo,           \* files of the os.walk still to be visited
    exc,                  \* exception in flight ("" when none)
    invocations,          \* download_single_document_in_page calls on this page
    clicks,               \* clicks on export / next controls since the page began
    calls,                \* add_document calls made so far (the inputs)
    on_login_page,        \* the browser's current_url is the login page
    folders,              \* directories existing below BASE_DOWNLOAD_DIR (paths)
    csv_file,             \* the listing file handed to _read_csv_file
    client_list,          \* main(): the pending clients' rows of the client sheet
    client_index,         \* main(): position of the client loop in client_list
    consecutive_errors,   \* main(): consecutive_errors
    emails_sent,          \* critical-error notifications issued so far
    phases,               \* main(): the calls made for the current client
    client_object,        \* main(): the client whose Client object the name
                          \* client_object is bound to (0: not bound yet)
    email_handler,        \* downloader.email_handler is configured
    excel_handler         \* ExcelHandler: the document sheet's data rows and
                          \* the document_list read from it

vars == <<pc, max_total_documents, client_folder_path, document_list,
          redownload_if_exists, disk, download_dir, zip_folder, doc_rows,
          client_row, page_num, total_pages, retry_attempt, row_index, attempts,
          files_todo, exc, invocations, clicks, calls, on_login_page, folders,
          csv_file, client_list, client_index, consecutive_errors, emails_sent,
          phases, client_object, email_handler, excel_handler>>

\* the state of main()'s loop over the clients
runVars == <<client_list, client_index, consecutive_errors, emails_sent, phases,
             client_object, email_handler>>

----------------------------------------------------------------------------
(* Bounds of the model *)

\* longest listing (documents of one client)
MaxDocs == 3
\* largest document count the portal's badge reports
MaxTotal == 3
\* longest sequence of add_document calls explored for the Client aggregate
MaxCalls == 3
\* documents added to a Client while its folder methods are explored
MaxFolderDocs == 2
\* calls of the individual export explored over a staging directory
MaxStagingCalls == 2
\* data rows of a listing file
MaxCsvRows == 2
\* document counts and page sizes the page count is compared over
MaxPageDocs == 7
MaxPerPage == 3
\* calls recorded for one Document: its construction and what follows
MaxRederivations == 2
\* documents of a listing recorded in the document sheet
MaxLedgerDocs == 2
\* pending clients of a run
MaxClients == 3
\* MAX_CONSECUTIVE_ERRORS of the configuration (10 when not configured)
MAX_CONSECUTIVE_ERRORS == 2

(* Program configuration *)

\* NUMBER_ITEMS_PER_PAGE as configured for the run
NUMBER_ITEMS_PER_PAGE == 2

\* polls of wait_for_file_download before its timeout (timeout / 2 seconds)
MaxPolls == 3

\* DOWNLOAD_RETRY_COUNT, the default
DOWNLOAD_RETRY_COUNT == 3
\* Document.BE_DOWNLOAD_YEAR
BE_DOWNLOAD_YEAR == 2018

----------------------------------------------------------------------------
(* Text helpers: Python str operations on sequences of characters *)

Range(s) == {s[i] : i \in 1..Len(s)}

\* str.lower() on one character
LowerChar(c) ==
    CASE c = "A" -> "a" [] c = "B" -> "b" [] c = "C" -> "c" [] c = "D" -> "d"
      [] c = "F" -> "f" [] c = "P" -> "p" [] c = "Q" -> "q" [] c = "T" -> "t"
      [] c = "X" -> "x"
      [] OTHER -> c

\* str.lower()
StrLower(s) == [i \in 1..Len(s) |-> LowerChar(s[i])]

\* Python's `needle in hay` for strings
IsSubstring(needle, hay) ==
    \E i \in 0..(Len(hay) - Len(needle)) :
        \A j \in 1..Len(needle) : hay[i + j] = needle[j]

\* the characters re.sub(r'[\\/:*?"<>|]', '', name) removes
SpecialChars == {"\\", "/", ":", "*", "?", "\"", "<", ">", "|"}

\* re.sub(r'[\\/:*?"<>|]', '', s)
RemoveSpecial(s) == SelectSeq(s, LAMBDA c : c \notin SpecialChars)

\* str.strip(): leading and trailing blanks removed
RECURSIVE LStrip(_)
LStrip(s) == IF s # <<>> /\ Head(s) = " " THEN LStrip(Tail(s)) ELSE s

RECURSIVE RStrip(_)
RStrip(s) ==
    IF s # <<>> /\ s[Len(s)] = " " THEN RStrip(SubSeq(s, 1, Len(s) - 1)) ELSE s

Strip(s) == RStrip(LStrip(s))

\* "_".join(items)
RECURSIVE JoinUnderscore(_)
JoinUnderscore(items) ==
    IF items = <<>> THEN <<>>
    ELSE IF Len(items) = 1 THEN items[1]
    ELSE items[1] \o <<"_">> \o JoinUnderscore(Tail(items))

\* largest index of character c in s, 0 when absent (str.rfind + 1)
LastIndexOf(s, c) ==
    LET hits == {i \in 1..Len(s) : s[i] = c}
    IN IF hits = {} THEN 0 ELSE CHOOSE i \in hits : \A j \in hits : j <= i

\* os.path.splitext: the extension starts at the last dot of the last path
\* component, unless only dots precede it in that component
splitext(p) ==
    LET sep == LastIndexOf(p, "/")
        dot == LastIndexOf(p, ".")
    IN IF dot > sep /\ \E k \in (sep + 1)..(dot - 1) : p[k] # "."
       THEN <<SubSeq(p, 1, dot - 1), SubSeq(p, dot, Len(p))>>
       ELSE <<p, <<>>>>

\* int(year) >= BE_DOWNLOAD_YEAR for a string of decimal digits
Digits == {"0", "1", "2", "3", "4", "5", "6", "7", "8", "9"}

DigitValue(c) ==
    CASE c = "0" -> 0 [] c = "1" -> 1 [] c = "2" -> 2 [] c = "3" -> 3
      [] c = "4" -> 4 [] c = "5" -> 5 [] c = "6" -> 6 [] c = "7" -> 7
      [] c = "8" -> 8 [] OTHER -> 9

RECURSIVE DecimalValue(_)
DecimalValue(s) ==
    IF s = <<>> THEN 0
    ELSE 10 * DecimalValue(SubSeq(s, 1, Len(s) - 1)) + DigitValue(s[Len(s)])

----------------------------------------------------------------------------
(* document_mapping.py *)

bookkeeping == <<"b", "o", "o", "k", "k", "e", "e", "p", "i", "n", "g">>

get_document_category(file_section, document_type, description) ==
    IF StrLower(Strip(file_section)) = bookkeeping
    THEN "Accounting & Payroll"
    ELSE "Other"

----------------------------------------------------------------------------
(* models.py: Document *)

\* a plausible slip: the special characters stay in the name
generate_name_unstripped(client_name, year, document_type, description, file_type) ==
    JoinUnderscore(SelectSeq(<<client_name, year, document_type, description>>, LAMBDA x : x # <<>>))
        \o <<".">> \o (IF file_type # <<>> THEN file_type ELSE <<"p", "d", "f">>)

\* Document._generate_document_name_without_id
generate_document_name_without_id(client_name, year, document_type, description, file_type) ==
    LET name_items == SelectSeq(<<client_name, year, document_type, description>>,
                                LAMBDA x : x # <<>>)
        name == RemoveSpecial(JoinUnderscore(name_items))
        ft == IF file_type # <<>> THEN file_type ELSE <<"p", "d", "f">>
    IN name \o <<".">> \o ft

\* Document._generate_document_name_with_id
generate_document_name_with_id(name_without_id, document_id) ==
    LET parts == splitext(name_without_id)
    IN parts[1] \o <<"_">> \o document_id \o parts[2]

\* int(s) for a str: blanks around are dropped, one sign may lead, the digits
\* may be grouped by single underscores; ok is FALSE where Python raises
\* ValueError
int_of_str(s) ==
    LET t == Strip(s)
        body == IF t # <<>> /\ Head(t) \in {"+", "-"} THEN Tail(t) ELSE t
        wellformed == /\ body # <<>>
                      /\ Range(body) \subseteq Digits \cup {"_"}
                      /\ Head(body) # "_"
                      /\ body[Len(body)] # "_"
                      /\ \A k \in 1..(Len(body) - 1) : ~(body[k] = "_" /\ body[k + 1] = "_")
        magnitude == DecimalValue(SelectSeq(body, LAMBDA c : c \in Digits))
    IN IF ~wellformed THEN [ok |-> FALSE, value |-> 0]
       ELSE [ok |-> TRUE, value |-> IF Head(t) = "-" THEN 0 - magnitude ELSE magnitude]

\* a plausible slip: the boundary year itself is left out
is_downloadable_after_boundary(year) ==
    IF year = <<>> THEN TRUE
    ELSE IF int_of_str(year).ok
         THEN int_of_str(year).value > BE_DOWNLOAD_YEAR
         ELSE FALSE

\* Document.is_downloadable
is_downloadable(year) ==
    IF year = <<>> THEN TRUE
    ELSE IF int_of_str(year).ok
         THEN int_of_str(year).value >= BE_DOWNLOAD_YEAR
         ELSE FALSE

\* a plausible slip: the year folder is left out
folder_path_without_year(has_client, folder_path, category_name, year) ==
    IF ~has_client \/ folder_path = <<>> THEN <<>> ELSE folder_path \o <<category_name>>

\* Document.get_document_folder_path; a path is the sequence of its components
get_document_folder_path(has_client, folder_path, category_name, year) ==
    IF ~has_client THEN <<>>
    ELSE IF folder_path = <<>> THEN <<>>
    ELSE IF category_name = "" THEN <<>>
    ELSE IF year # <<>> /\ Strip(year) # <<>>
         THEN folder_path \o <<category_name, Strip(year)>>
         ELSE folder_path \o <<category_name>>

\* Document.check_file_exists
check_file_exists(file_path, files) ==
    IF file_path = <<>> THEN FALSE ELSE file_path \in files

\* Document.update_paths
update_paths(doc, has_client, folder_path, files) ==
    LET folder == get_document_folder_path(has_client, folder_path,
                                           doc.category_name, doc.year)
        file == IF folder # <<>> THEN folder \o <<doc.document_name_with_id>>
                ELSE <<>>
    IN [doc EXCEPT !.document_folder_path = folder,
                   !.document_file_path = file,
                   !.file_exists = check_file_exists(file, files)]

\* Document.__init__
NewDocument(document_id, file_section, document_type, description, year, file_type, client_name, has_client, folder_path, files) ==
    LET without == generate_document_name_without_id(client_name, year,
                       document_type, description, file_type)
        base == [document_id |-> document_id,
                 file_section |-> file_section,
                 document_type |-> document_type,
                 description |-> description,
                 year |-> year,
                 file_type |-> file_type,
                 client_name |-> client_name,
                 category_name |-> get_document_category(file_section,
                                       document_type, description),
                 download_status |-> "",
                 download_description |-> "",
                 document_name_without_id |-> without,
                 document_name_with_id |->
                     generate_document_name_with_id(without, document_id),
                 document_folder_path |-> <<>>,
                 document_file_path |-> <<>>,
                 downloadable |-> is_downloadable(year),
                 file_exists |-> FALSE]
    IN update_paths(base, has_client, folder_path, files)

\* Document.be_executed
be_executed(doc, redownload) ==
    IF ~doc.downloadable THEN FALSE
    ELSE IF ~doc.file_exists THEN TRUE
    ELSE redownload

\* Document.set_download_status
set_download_status(doc, status, description) ==
    [doc EXCEPT !.download_status = status,
                !.download_description = description]

----------------------------------------------------------------------------
(* excel_handler.py: the document sheet. A data row of the sheet holds the *)
(* key columns and the two status columns; data row k is sheet row k + 1   *)

\* the row add_document_row writes
NewSheetRow(document_id, client_name, client_number) ==
    [doc_id |-> document_id, client_name |-> client_name, client_number |-> client_number,
     download_status |-> "", download_desc |-> ""]

\* ExcelHandler.get_document_list: rows without a key are skipped
RECURSIVE get_document_list(_)
get_document_list(sheet) ==
    IF sheet = <<>> THEN <<>>
    ELSE LET row == sheet[Len(sheet)]
             before == get_document_list(SubSeq(sheet, 1, Len(sheet) - 1))
             doc_id == Strip(row.doc_id)
             client_name == Strip(row.client_name)
             client_number == Strip(row.client_number)
         IN IF doc_id = <<>> \/ client_name = <<>> \/ client_number = <<>>
            THEN before
            ELSE Append(before, [row_index |-> Len(sheet) + 1, doc_id |-> doc_id,
                                 client_name |-> client_name, client_number |-> client_number,
                                 download_status |-> row.download_status,
                                 download_desc |-> row.download_desc])

\* ExcelHandler.__init__ over a workbook's document sheet
NewExcelHandler(sheet) == [document_list_sheet |-> sheet, document_list |-> get_document_list(sheet)]

\* a lookup that finds nothing
row_index_never_found(doc_infos, client_name, client_number, document_id) == 0

\* ExcelHandler.get_document_row_index: 0 for None
get_document_row_index(doc_infos, client_name, client_number, document_id) ==
    LET hits == {i \in 1..Len(doc_infos) :
                    /\ doc_infos[i].client_name = client_name
                    /\ doc_infos[i].client_number = client_number
                    /\ doc_infos[i].doc_id = document_id}
    IN IF hits = {} THEN 0
       ELSE doc_infos[CHOOSE i \in hits : \A j \in hits : i <= j].row_index

\* ExcelHandler.add_document_row: the handler after the call and the
\* exception raised; an existing row keeps its status columns
add_document_row(handler, document_id, client_name, client_number, header_ok) ==
    LET existing_row_index == get_document_row_index(handler.document_list, client_name, client_number, document_id)
    IN IF ~header_ok THEN [handler |-> handler, exc |-> "ExcelHeaderError", row_index |-> 0]
       ELSE IF existing_row_index # 0
       THEN [handler |-> handler, exc |-> "", row_index |-> existing_row_index]
       ELSE LET new_row_index == Len(handler.document_list_sheet) + 2
            IN [handler |-> [document_list_sheet |->
                                 Append(handler.document_list_sheet,
                                        NewSheetRow(document_id, client_name, client_number)),
                             document_list |->
                                 Append(handler.document_list,
                                        NewSheetRow(document_id, client_name, client_number)
                                            @@ [row_index |-> new_row_index])],
                exc |-> "", row_index |-> new_row_index]

\* ExcelHandler.update_document_row with download_status and download_desc
update_document_row(handler, excel_row, download_status, download_desc, header_ok) ==
    IF excel_row = 0 THEN [handler |-> handler, exc |-> "ExcelOperationError"]
    ELSE IF ~header_ok THEN [handler |-> handler, exc |-> "ExcelHeaderError"]
    ELSE IF excel_row - 1 \notin 1..Len(handler.document_list_sheet)
    THEN [handler |-> handler, exc |-> "ExcelOperationError"]
    ELSE LET hits == {i \in 1..Len(handler.document_list) : handler.document_list[i].row_index = excel_row}
             first == CHOOSE i \in hits : \A j \in hits : i <= j
         IN [handler |-> [document_list_sheet |->
                              [handler.document_list_sheet EXCEPT ![excel_row - 1] =
                                  [@ EXCEPT !.download_status = download_status,
                                            !.download_desc = download_desc]],
                          document_list |->
                              IF hits = {} THEN handler.document_list
                              ELSE [handler.document_list EXCEPT ![first] =
                                       [@ EXCEPT !.download_status = download_status,
                                                 !.download_desc = download_desc]]],
             exc |-> ""]

----------------------------------------------------------------------------
(* models.py: Client *)

\* Client._sanitize_folder_name
sanitize_folder_name(folder_name) ==
    IF folder_name = <<>> THEN <<>> ELSE RemoveSpecial(folder_name)

\* first index of a document with this id, 0 when there is none
IndexOfId(list, document_id) ==
    LET hits == {i \in 1..Len(list) : list[i].document_id = document_id}
    IN IF hits = {} THEN 0 ELSE CHOOSE i \in hits : \A j \in hits : i <= j

\* a plausible slip: the duplicate check is dropped
add_document_always_append(list, document, folder_path, files) ==
    Append(list, update_paths(document, TRUE, folder_path, files))

\* Client.add_document: the list after the call
add_document(list, document, folder_path, files) ==
    IF IndexOfId(list, document.document_id) = 0
    THEN Append(list, update_paths(document, TRUE, folder_path, files))
    ELSE list

\* Client.get_number_of_downloaded_documents
get_number_of_downloaded_documents(list) ==
    Cardinality({i \in 1..Len(list) : list[i].download_status = "Success"})

----------------------------------------------------------------------------
(* The run's client and the portal's listing (the inputs of the model) *)

\* the client of the run: row of the client list sheet
TheClientName == <<"A">>
TheClientNumber == <<"5">>

\* models.BASE_DOWNLOAD_DIR
BASE_DOWNLOAD_DIR == "BASE"

\* Client.__init__: client_folder_name
client_folder_name == sanitize_folder_name(TheClientNumber \o <<" ", "-", " ">> \o TheClientName)

\* the document ids the portal may list; "7" is a substring of "77"
RowIds == {<<"7">>, <<"7", "7">>, <<"8">>}

\* the CSV row of a document id: its descriptive columns
RowData(id) ==
    IF id = <<"7">>
    THEN [file_section |-> <<"B", "o", "o", "k", "k", "e", "e", "p", "i", "n", "g">>,
          document_type |-> <<"T">>, description |-> <<>>,
          year |-> <<"2", "0", "2", "0">>, file_type |-> <<"p", "d", "f">>]
    ELSE IF id = <<"7", "7">>
    THEN [file_section |-> <<>>, document_type |-> <<"T">>, description |-> <<"Q">>,
          year |-> <<>>, file_type |-> <<>>]
    ELSE [file_section |-> <<"C", "l", "i", "e", "n", "t", "f", "l", "o", "w">>,
          document_type |-> <<"T">>, description |-> <<"Q">>,
          year |-> <<"2", "0", "1", "6">>, file_type |-> <<"p", "d", "f">>]

\* export_csv_file: the Document built from one CSV row
DocumentOfRow(id, folder_path, files) ==
    LET r == RowData(id)
    IN NewDocument(id, r.file_section, r.document_type, r.description, r.year, r.file_type, TheClientName, TRUE, folder_path, files)

\* sequences over S without repetition, of length at most n
InjectiveSeqs(S, n) ==
    UNION {{s \in [1..k -> S] : \A i, j \in 1..k : i # j => s[i] # s[j]} : k \in 0..n}

Min(a, b) == IF a < b THEN a ELSE b

\* the listings the portal may export: document ids in listing order
Listings == InjectiveSeqs(RowIds, Min(MaxDocs, Cardinality(RowIds)))

\* the client's folder once initialize_folders succeeded
InitializedFolderPath == <<BASE_DOWNLOAD_DIR, client_folder_name>>

\* every path a listed document can be stored at
AllTargetPaths == {DocumentOfRow(id, InitializedFolderPath, {}).document_file_path : id \in RowIds}

\* the rows the portal's table shows on a page: the listing, page by page
RowsOnPage(list, page) ==
    LET first == (page - 1) * NUMBER_ITEMS_PER_PAGE + 1
        last == Min(page * NUMBER_ITEMS_PER_PAGE, Len(list))
    IN [i \in 1..(IF last >= first THEN last - first + 1 ELSE 0) |-> list[first + i - 1].document_id]

----------------------------------------------------------------------------
(* models.py: the Client's folder operations. A directory operation of the *)
(* file system may fail; what exists on disk is the set `folders`.         *)

\* document_mapping.get_all_categories
get_all_categories ==
    <<"_Permanent", "Accounting & Payroll", "Consulting & Special Projects", "Other", "Tax">>

\* the path of a category folder below the client's folder
CategoryPath(folder_path, category) == folder_path \o <<category>>

\* Client.create_client_folder; makedirs_ok: os.makedirs succeeds
create_client_folder(folder_path, dirs, makedirs_ok) ==
    LET full_path == <<BASE_DOWNLOAD_DIR, client_folder_name>>
    IN IF BASE_DOWNLOAD_DIR = "" \/ client_folder_name = <<>>
       THEN [client_folder_path |-> folder_path, folders |-> dirs, exc |-> "FolderCreationError"]
       ELSE IF full_path \notin dirs /\ ~makedirs_ok
       THEN [client_folder_path |-> folder_path, folders |-> dirs, exc |-> "FolderCreationError"]
       ELSE [client_folder_path |-> full_path, folders |-> dirs \cup {full_path}, exc |-> ""]

\* the loop of create_category_folders from category k on; os.makedirs
\* succeeds for the first n_ok directories it is asked to create
RECURSIVE CreateCategoriesFrom(_, _, _, _)
CreateCategoriesFrom(folder_path, dirs, k, n_ok) ==
    IF k > Len(get_all_categories) THEN [folders |-> dirs, exc |-> ""]
    ELSE LET category_path == CategoryPath(folder_path, get_all_categories[k])
         IN IF category_path \in dirs
            THEN CreateCategoriesFrom(folder_path, dirs, k + 1, n_ok)
            ELSE IF n_ok = 0
            THEN [folders |-> dirs, exc |-> "FolderCreationError"]
            ELSE CreateCategoriesFrom(folder_path, dirs \cup {category_path}, k + 1, n_ok - 1)

\* Client.create_category_folders
create_category_folders(folder_path, dirs, n_ok) ==
    IF folder_path = <<>> \/ folder_path \notin dirs
    THEN [client_folder_path |-> folder_path, folders |-> dirs, exc |-> "FolderCreationError"]
    ELSE [client_folder_path |-> folder_path] @@ CreateCategoriesFrom(folder_path, dirs, 1, n_ok)

\* a plausible slip: the path set by create_client_folder survives a failure
initialize_folders_keeps_path(folder_path, dirs, makedirs_ok, n_ok) ==
    LET root == create_client_folder(folder_path, dirs, makedirs_ok)
    IN IF root.exc # "" THEN root
       ELSE create_category_folders(root.client_folder_path, root.folders, n_ok)

\* Client.initialize_folders
initialize_folders(folder_path, dirs, makedirs_ok, n_ok) ==
    LET root == create_client_folder(folder_path, dirs, makedirs_ok)
        both == create_category_folders(root.client_folder_path, root.folders, n_ok)
    IN IF root.exc # ""
       THEN [root EXCEPT !.client_folder_path = <<>>]
       ELSE IF both.exc # ""
       THEN [both EXCEPT !.client_folder_path = <<>>]
       ELSE both

\* Client.create_year_folder; os.makedirs succeeds for the first n_ok
\* directories it is asked to create
create_year_folder(folder_path, dirs, category, year, n_ok) ==
    LET category_path == CategoryPath(folder_path, category)
        year_path == category_path \o <<year>>
        unchanged == [client_folder_path |-> folder_path, folders |-> dirs]
        need_category == category_path \notin dirs
        with_category == dirs \cup {category_path}
        left == IF need_category THEN n_ok - 1 ELSE n_ok
    IN IF folder_path = <<>> \/ year = <<>>
       THEN unchanged @@ [exc |-> "FolderCreationError"]
       ELSE IF folder_path \notin dirs
       THEN unchanged @@ [exc |-> "FolderCreationError"]
       ELSE IF need_category /\ n_ok = 0
       THEN unchanged @@ [exc |-> "FolderCreationError"]
       ELSE IF year_path \notin with_category /\ left = 0
       THEN [client_folder_path |-> folder_path, folders |-> with_category, exc |-> "FolderCreationError"]
       ELSE [client_folder_path |-> folder_path, folders |-> with_category \cup {year_path}, exc |-> ""]

\* the client's folder and its category folders, all on disk
InitializedFolders ==
    {<<BASE_DOWNLOAD_DIR, client_folder_name>>}
    \cup {CategoryPath(<<BASE_DOWNLOAD_DIR, client_folder_name>>, get_all_categories[k]) : k \in 1..Len(get_all_categories)}

----------------------------------------------------------------------------
(* file_handler.py *)

\* the sequence without the element x
WithoutFile(dir, x) == SelectSeq(dir, LAMBDA f : f # x)

\* rename_file_with_doc_id: the new file name
rename_file_with_doc_id(file_name, doc_id) ==
    LET parts == splitext(file_name)
    IN parts[1] \o <<"_">> \o doc_id \o parts[2]

\* wait_for_file_download without an expected extension: the latest file of
\* the folder, or a timeout when the folder stays empty
wait_for_file_download(dir) ==
    IF dir = <<>> THEN [timeout |-> TRUE, file |-> <<>>]
    ELSE [timeout |-> FALSE, file |-> dir[Len(dir)]]

----------------------------------------------------------------------------
(* main.py: download_single_document_in_page *)

\* what the portal and the file system do during one individual export:
\* no usable export button, no file within the wait, or a file of some name
\* (and then whether moving it to its target succeeds)
SingleOutcomes(expected_name) ==
    {[kind |-> "noexport", name |-> <<>>, move_ok |-> TRUE],
     [kind |-> "timeout", name |-> <<>>, move_ok |-> TRUE],
     [kind |-> "file", name |-> <<"X">> \o expected_name, move_ok |-> TRUE]}
    \cup {[kind |-> "file", name |-> expected_name, move_ok |-> b] : b \in BOOLEAN}
    \cup {[kind |-> "file", name |-> StrLower(expected_name), move_ok |-> TRUE]}

\* the outcomes offered for the row showing document id `id`
OutcomesForRow(list, id) ==
    LET i == IndexOfId(list, id)
    IN SingleOutcomes(IF i = 0 THEN <<>> ELSE list[i].document_name_without_id)

\* download_single_document_in_page(document_table, row_index, document_list):
\* the state it leaves, the exception it raises ("" when it returns) and the
\* files that were in the staging directory when the wait for the download
\* ended
download_single_document_in_page(list, files, dir, rows, row_doc_id, o) ==
    LET i == IndexOfId(list, row_doc_id)
        same == [list |-> list, disk |-> files, download_dir |-> dir, doc_rows |-> rows]
    IN IF o.kind = "noexport" \/ i = 0
       THEN same @@ [exc |-> "DocumentExportError", clicked |-> FALSE, mismatch |-> FALSE, staged |-> dir]
       ELSE LET dir1 == IF o.kind = "file" THEN Append(dir, o.name) ELSE dir
                w == wait_for_file_download(dir1)
                renamed == rename_file_with_doc_id(w.file, list[i].document_id)
                dir2 == [k \in 1..Len(dir1) |-> IF dir1[k] = w.file THEN renamed ELSE dir1[k]]
                moved == [list |-> list, disk |-> files \cup {list[i].document_file_path},
                          download_dir |-> WithoutFile(dir2, renamed), doc_rows |-> rows]
            IN IF w.timeout
               THEN same @@ [exc |-> "FileDownloadTimeoutError", clicked |-> TRUE, mismatch |-> FALSE, staged |-> dir1]
               ELSE IF StrLower(w.file) # StrLower(list[i].document_name_without_id)
               THEN [list |-> [list EXCEPT ![i] = set_download_status(@, "Error", "File name mismatch")],
                     disk |-> files, download_dir |-> WithoutFile(dir1, w.file), doc_rows |-> rows,
                     exc |-> "DocumentExportError", clicked |-> TRUE, mismatch |-> TRUE, staged |-> dir1]
               ELSE IF ~o.move_ok
               THEN [list |-> list, disk |-> files, download_dir |-> dir2, doc_rows |-> rows,
                     exc |-> "FileOperationError", clicked |-> TRUE, mismatch |-> FALSE, staged |-> dir1]
               ELSE IF row_doc_id \notin DOMAIN rows
               THEN moved @@ [exc |-> "DocumentExportError", clicked |-> TRUE, mismatch |-> FALSE, staged |-> dir1]
               ELSE [moved EXCEPT
                        !.list = [list EXCEPT ![i] = set_download_status(@, "Success", "File downloaded successfully")],
                        !.doc_rows = [rows EXCEPT ![row_doc_id] = [status |-> "Success", desc |-> "File downloaded successfully"]]]
                    @@ [exc |-> "", clicked |-> TRUE, mismatch |-> FALSE, staged |-> dir1]

----------------------------------------------------------------------------
(* main.py: download_multiple_documents_in_page, the extracted files *)

\* the files a page's zip may hold for one document: its name with id, the
\* same name in another case, a different name that carries the id
ZipCandidates(doc) ==
    {doc.document_name_with_id, StrLower(doc.document_name_with_id), <<"X">> \o doc.document_name_with_id}

\* the zips the portal may deliver for the rows of a page: per document at
\* most one file
ZipChoices(list, ids) ==
    LET docs == {list[i] : i \in {k \in 1..Len(list) : list[k].document_id \in ids}}
    IN {Z \in SUBSET (UNION {ZipCandidates(d) : d \in docs}) :
            \A d \in docs : Cardinality(Z \cap ZipCandidates(d)) <= 1}

\* the orders in which os.walk may list the files of a folder
WalkOrders(folder) ==
    {s \in [1..Cardinality(folder) -> folder] : \A i, j \in DOMAIN s : i # j => s[i] # s[j]}

\* lines 779-787: the first document whose id occurs in the file name
FindDocumentForFile(list, file_name) ==
    LET hits == {i \in 1..Len(list) : IsSubstring(list[i].document_id, file_name)}
    IN IF hits = {} THEN 0 ELSE CHOOSE i \in hits : \A j \in hits : i <= j

\* a plausible slip: a mismatching file is moved and recorded all the same
process_file_no_name_check(list, files, folder, rows, file_name, move_ok) ==
    LET i == FindDocumentForFile(list, file_name)
    IN IF i = 0
       THEN [list |-> list, disk |-> files, zip_folder |-> folder, doc_rows |-> rows, exc |-> ""]
       ELSE [list |-> [list EXCEPT ![i] = set_download_status(@, "Success", "File downloaded successfully")],
             disk |-> files \cup {list[i].document_file_path},
             zip_folder |-> folder \ {file_name},
             doc_rows |-> IF list[i].document_id \in DOMAIN rows
                          THEN [rows EXCEPT ![list[i].document_id] = [status |-> "Success", desc |-> "File downloaded successfully"]]
                          ELSE rows,
             exc |-> ""]

\* lines 774-826: one iteration of the loop over the extracted files
process_extracted_file(list, files, folder, rows, file_name, move_ok) ==
    LET i == FindDocumentForFile(list, file_name)
        same == [list |-> list, disk |-> files, zip_folder |-> folder, doc_rows |-> rows]
    IN IF i = 0
       THEN same @@ [exc |-> ""]
       ELSE IF StrLower(file_name) # StrLower(list[i].document_name_with_id)
       THEN [same EXCEPT !.list = [list EXCEPT ![i] = set_download_status(@, "Error", "File name mismatch")]]
            @@ [exc |-> ""]
       ELSE IF ~move_ok
       THEN same @@ [exc |-> "FileOperationError"]
       ELSE LET moved == [same EXCEPT !.disk = files \cup {list[i].document_file_path},
                                      !.zip_folder = folder \ {file_name}]
            IN IF list[i].document_id \notin DOMAIN rows
               THEN moved @@ [exc |-> "DocumentExportError"]
               ELSE [moved EXCEPT
                        !.list = [list EXCEPT ![i] = set_download_status(@, "Success", "File downloaded successfully")],
                        !.doc_rows = [rows EXCEPT ![list[i].document_id] = [status |-> "Success", desc |-> "File downloaded successfully"]]]
                    @@ [exc |-> ""]

----------------------------------------------------------------------------
(* main.py: export_documents, the retry loops and main()'s outcome *)

\* a plausible slip: the login page goes unnoticed
login_redirect_ignored(on_login) == ""

\* _check_and_handle_login_redirect: the exception it raises ("" when none)
check_and_handle_login_redirect(on_login) ==
    IF on_login THEN "WebNavigationError" ELSE ""

\* a plausible slip: a missing next-page control is an error of the client
missing_next_page_raises(control) ==
    IF control = "advanced" THEN "page"
    ELSE IF control = "disabled" THEN "finish"
    ELSE "handler"

\* lines 651-666: where the page loop goes after the next-page control was
\* looked up: clicked, found disabled, or not found within the wait
after_next_page(control) ==
    IF control = "advanced" THEN "page" ELSE "finish"

\* a plausible slip: every exception is retried
retry_any_exception(attempt, e) ==
    e # "" /\ attempt < DOWNLOAD_RETRY_COUNT - 1

\* lines 621-630 and 639-648: whether the retry loop makes another attempt
\* after an attempt that raised e
retry_again(attempt, e) ==
    e = "FileDownloadTimeoutError" /\ attempt < DOWNLOAD_RETRY_COUNT - 1

\* a plausible slip: the single-document case is not told apart
page_branch_always_multiple(max_total, n_rows) ==
    IF n_rows <= 0 THEN "finish"
    ELSE IF max_total >= 1 THEN "multi"
    ELSE "next"

\* lines 608-634: what an iteration of the page loop does with its rows
page_branch(max_total, n_rows) ==
    IF n_rows <= 0 THEN "finish"
    ELSE IF max_total = 1 THEN "single"
    ELSE IF max_total > 1 THEN "multi"
    ELSE "next"

\* a plausible slip: the last, partly filled page is not counted
total_pages_rounded_down(max_total, per_page) == max_total \div per_page

\* line 585
compute_total_pages(max_total, per_page) ==
    (max_total + per_page - 1) \div per_page

\* a plausible slip: at least as many downloads as expected
client_outcome_any_success(list, max_total) ==
    IF get_number_of_downloaded_documents(list) >= 1 THEN "Success" ELSE "Warning"

\* main() lines 1110-1115: the status of a client whose export returned
client_outcome(list, max_total) ==
    IF get_number_of_downloaded_documents(list) = max_total THEN "Success" ELSE "Warning"

----------------------------------------------------------------------------
(* The processing of one client by main(): state machine *)

\* the runs the model starts from: a first run with the flag as in the
\* source, and a re-run over a fully downloaded tree with the flag disabled
PriorRuns == {<<TRUE, {}, {}>>, <<FALSE, AllTargetPaths, InitializedFolders>>}

NewAttempt(op, fallback, zip_timeout, result) ==
    [page |-> page_num, attempt |-> retry_attempt, op |-> op, fallback |-> fallback,
     zip_timeout |-> zip_timeout, result |-> result]

EndAttempt(result) ==
    [attempts EXCEPT ![Len(attempts)].result = result]

ResultOf(e) == IF e = "" THEN "ok" ELSE e

Init ==
    /\ pc = "search"
    /\ max_total_documents = 0
    /\ client_folder_path = <<>>
    /\ document_list = <<>>
    /\ \E prior \in PriorRuns :
          /\ redownload_if_exists = prior[1]
          /\ disk = prior[2]
          /\ folders = prior[3]
    /\ download_dir = <<>>
    /\ zip_folder = {}
    /\ doc_rows = <<>>
    /\ client_row = [status |-> "Pending", description |-> ""]
    /\ page_num = 0
    /\ total_pages = 0
    /\ retry_attempt = 0
    /\ row_index = 0
    /\ attempts = <<>>
    /\ files_todo = <<>>
    /\ exc = ""
    /\ invocations = <<>>
    /\ clicks = <<>>
    /\ calls = <<>>
    /\ on_login_page = FALSE
    /\ csv_file = <<>>
    /\ client_list = <<>>
    /\ client_index = 0
    /\ consecutive_errors = 0
    /\ emails_sent = <<>>
    /\ phases = <<>>
    /\ client_object = 0
    /\ email_handler = FALSE
    /\ excel_handler = NewExcelHandler(<<>>)

\* search_client: the portal finds the client and reports its document
\* count, or the search fails
SearchClient ==
    /\ pc = "search"
    /\ \E found \in BOOLEAN, n \in 0..MaxTotal :
          IF found
          THEN /\ max_total_documents' = n
               /\ pc' = "init_folders"
               /\ exc' = exc
          ELSE /\ n = 0
               /\ max_total_documents' = max_total_documents
               /\ pc' = "handler"
               /\ exc' = "ClientNotFoundError"
    /\ UNCHANGED <<client_folder_path, document_list, redownload_if_exists, disk,
                   download_dir, zip_folder, doc_rows, client_row, page_num,
                   total_pages, retry_attempt, row_index, attempts, files_todo,
                   invocations, clicks, calls,
                   on_login_page, folders, csv_file, runVars, excel_handler>>

\* main() lines 1080-1102: initialize_folders, the "InProgress" update and
\* the zero-document exit
InitializeFolders ==
    /\ pc = "init_folders"
    /\ \E makedirs_ok \in BOOLEAN, n_ok \in {0, 2, Len(get_all_categories)} :
          LET r == initialize_folders(client_folder_path, folders, makedirs_ok, n_ok)
          IN /\ client_folder_path' = r.client_folder_path
             /\ folders' = r.folders
             /\ IF r.exc = ""
                THEN /\ exc' = exc
                     /\ IF max_total_documents = 0
                        THEN /\ client_row' = [status |-> "Success", description |-> "Client has no document"]
                             /\ pc' = "done"
                        ELSE /\ client_row' = [status |-> "InProgress", description |-> "Downloading documents..."]
                             /\ pc' = "listing"
                ELSE /\ exc' = r.exc
                     /\ client_row' = client_row
                     /\ pc' = "handler"
    /\ UNCHANGED <<max_total_documents, document_list, redownload_if_exists, disk,
                   download_dir, zip_folder, doc_rows, page_num, total_pages,
                   retry_attempt, row_index, attempts, files_todo, invocations,
                   clicks, calls,
                   on_login_page, csv_file, runVars, excel_handler>>

\* the documents of a listing added one by one
RECURSIVE AddAll(_, _, _, _)
AddAll(list, ids, folder_path, files) ==
    IF ids = <<>> THEN list
    ELSE AddAll(add_document(list, DocumentOfRow(Head(ids), folder_path, files), folder_path, files),
                Tail(ids), folder_path, files)

\* export_csv_file: the listing is read, its documents are added to the
\* client and, unless the sheet refuses, to the document log
ExportCsvFile ==
    /\ pc = "listing"
    /\ \E ok \in BOOLEAN, listing \in Listings, sheet_ok \in BOOLEAN :
          IF ok
          THEN /\ document_list' = AddAll(document_list, listing, client_folder_path, disk)
               /\ calls' = [i \in 1..Len(listing) |-> DocumentOfRow(listing[i], client_folder_path, disk)]
               /\ doc_rows' = IF sheet_ok
                              THEN [id \in Range(listing) |-> [status |-> "", desc |-> ""]]
                              ELSE doc_rows
               /\ pc' = "export"
               /\ exc' = exc
               /\ on_login_page' \in BOOLEAN
          ELSE /\ listing = <<>> /\ sheet_ok
               /\ UNCHANGED <<document_list, calls, doc_rows, on_login_page>>
               /\ pc' = "handler"
               /\ exc' = "CSVExportError"
    /\ UNCHANGED <<max_total_documents, client_folder_path, redownload_if_exists,
                   disk, download_dir, zip_folder, client_row, page_num,
                   total_pages, retry_attempt, row_index, attempts, files_todo,
                   invocations, clicks,
                   folders, csv_file, runVars, excel_handler>>

\* export_documents lines 577-590: login check and page count
ExportStart ==
    /\ pc = "export"
    /\ IF check_and_handle_login_redirect(on_login_page) # ""
       THEN /\ exc' = check_and_handle_login_redirect(on_login_page)
            /\ pc' = "handler"
            /\ UNCHANGED <<total_pages, page_num, on_login_page>>
       ELSE /\ exc' = exc
            /\ total_pages' = compute_total_pages(max_total_documents, NUMBER_ITEMS_PER_PAGE)
            /\ page_num' = 1
            /\ pc' = "page"
            /\ on_login_page' \in BOOLEAN
    /\ UNCHANGED <<max_total_documents, client_folder_path, document_list,
                   redownload_if_exists, disk, download_dir, zip_folder, doc_rows,
                   client_row, retry_attempt, row_index, attempts, files_todo,
                   invocations, clicks, calls,
                   folders, csv_file, runVars, excel_handler>>

\* lines 593-634: the head of one iteration of the page loop
PageBegin ==
    /\ pc = "page"
    /\ IF page_num > total_pages
       THEN /\ pc' = "finish"
            /\ exc' = exc
       ELSE IF check_and_handle_login_redirect(on_login_page) # ""
       THEN /\ exc' = check_and_handle_login_redirect(on_login_page)
            /\ pc' = "handler"
       ELSE /\ exc' = exc
            /\ pc' = page_branch(max_total_documents, Len(RowsOnPage(document_list, page_num)))
    /\ retry_attempt' = 0
    /\ attempts' = <<>>
    /\ invocations' = <<>>
    /\ clicks' = <<>>
    /\ UNCHANGED <<max_total_documents, client_folder_path, document_list,
                   redownload_if_exists, disk, download_dir, zip_folder, doc_rows,
                   client_row, page_num, total_pages, row_index, files_todo, calls,
                   on_login_page, folders, csv_file, runVars, excel_handler>>

\* lines 616-631: one attempt of the single-document retry loop
SingleAttempt ==
    /\ pc = "single"
    /\ LET id == RowsOnPage(document_list, page_num)[1]
       IN \E o \in OutcomesForRow(document_list, id) :
          LET r == download_single_document_in_page(document_list, disk, download_dir, doc_rows, id, o)
          IN /\ document_list' = r.list
             /\ disk' = r.disk
             /\ download_dir' = r.download_dir
             /\ doc_rows' = r.doc_rows
             /\ invocations' = Append(invocations, [page |-> page_num, attempt |-> retry_attempt, row |-> 0, result |-> ResultOf(r.exc), mismatch |-> r.mismatch])
             /\ clicks' = IF r.clicked THEN Append(clicks, [kind |-> "single", page |-> page_num, row |-> 0]) ELSE clicks
             /\ attempts' = Append(attempts, NewAttempt("single", FALSE, FALSE, ResultOf(r.exc)))
             /\ IF r.exc = ""
                THEN /\ pc' = "finish"
                     /\ UNCHANGED <<retry_attempt, exc>>
                ELSE IF retry_again(retry_attempt, r.exc)
                THEN /\ retry_attempt' = retry_attempt + 1
                     /\ pc' = "single"
                     /\ exc' = exc
                ELSE /\ exc' = r.exc
                     /\ pc' = "handler"
                     /\ retry_attempt' = retry_attempt
    /\ UNCHANGED <<max_total_documents, client_folder_path, redownload_if_exists,
                   zip_folder, client_row, page_num, total_pages, row_index,
                   files_todo, calls,
                   on_login_page, folders, csv_file, runVars, excel_handler>>

\* lines 634-637 and 687-771: one call of download_multiple_documents_in_page
\* up to the loop it enters (per-row fallback or extracted files)
MultiBegin ==
    /\ pc = "multi"
    /\ \E o \in {"web_error", "disabled", "zip_timeout", "zip"} :
          CASE o = "web_error" ->
                 /\ attempts' = Append(attempts, NewAttempt("multiple", FALSE, FALSE, "DocumentExportError"))
                 /\ exc' = "DocumentExportError"
                 /\ pc' = "handler"
                 /\ UNCHANGED <<clicks, zip_folder, files_todo, row_index>>
            [] o = "disabled" ->
                 /\ attempts' = Append(attempts, NewAttempt("multiple", TRUE, FALSE, "running"))
                 /\ row_index' = 0
                 /\ pc' = "fallback_row"
                 /\ UNCHANGED <<clicks, zip_folder, files_todo, exc>>
            [] o = "zip_timeout" ->
                 /\ attempts' = Append(attempts, NewAttempt("multiple", FALSE, TRUE, "ok"))
                 /\ clicks' = Append(clicks, [kind |-> "bulk", page |-> page_num, row |-> 0])
                 /\ pc' = "next"
                 /\ UNCHANGED <<zip_folder, files_todo, row_index, exc>>
            [] OTHER ->
                 /\ attempts' = Append(attempts, NewAttempt("multiple", FALSE, FALSE, "running"))
                 /\ clicks' = Append(clicks, [kind |-> "bulk", page |-> page_num, row |-> 0])
                 /\ \E Z \in ZipChoices(document_list, Range(RowsOnPage(document_list, page_num))) :
                       /\ zip_folder' = zip_folder \cup Z
                       /\ files_todo' \in WalkOrders(zip_folder \cup Z)
                 /\ pc' = "zip_file"
                 /\ UNCHANGED <<row_index, exc>>
    /\ UNCHANGED <<max_total_documents, client_folder_path, document_list,
                   redownload_if_exists, disk, download_dir, doc_rows, client_row,
                   page_num, total_pages, retry_attempt, invocations, calls,
                   on_login_page, folders, csv_file, runVars, excel_handler>>

\* lines 723-729: one iteration of the per-row fallback loop, or its end
FallbackRow ==
    /\ pc = "fallback_row"
    /\ LET rows == RowsOnPage(document_list, page_num)
       IN IF row_index >= Len(rows)
          THEN /\ attempts' = EndAttempt("ok")
               /\ pc' = "next"
               /\ UNCHANGED <<document_list, disk, download_dir, doc_rows, invocations,
                              clicks, row_index, retry_attempt, exc>>
          ELSE \E o \in OutcomesForRow(document_list, rows[row_index + 1]) :
               LET r == download_single_document_in_page(document_list, disk, download_dir, doc_rows, rows[row_index + 1], o)
               IN /\ document_list' = r.list
                  /\ disk' = r.disk
                  /\ download_dir' = r.download_dir
                  /\ doc_rows' = r.doc_rows
                  /\ invocations' = Append(invocations, [page |-> page_num, attempt |-> retry_attempt, row |-> row_index, result |-> ResultOf(r.exc), mismatch |-> r.mismatch])
                  /\ clicks' = IF r.clicked THEN Append(clicks, [kind |-> "single", page |-> page_num, row |-> row_index]) ELSE clicks
                  /\ IF r.exc \in {"", "DocumentExportError"}
                     THEN /\ row_index' = row_index + 1
                          /\ pc' = "fallback_row"
                          /\ UNCHANGED <<attempts, retry_attempt, exc>>
                     ELSE /\ attempts' = EndAttempt(r.exc)
                          /\ row_index' = row_index
                          /\ IF retry_again(retry_attempt, r.exc)
                             THEN /\ retry_attempt' = retry_attempt + 1
                                  /\ pc' = "multi"
                                  /\ exc' = exc
                             ELSE /\ exc' = r.exc
                                  /\ pc' = "handler"
                                  /\ retry_attempt' = retry_attempt
    /\ UNCHANGED <<max_total_documents, client_folder_path, redownload_if_exists,
                   zip_folder, client_row, page_num, total_pages, files_todo, calls,
                   on_login_page, folders, csv_file, runVars, excel_handler>>

\* lines 773-826: one extracted file, or the end of the walk
ZipFile ==
    /\ pc = "zip_file"
    /\ IF files_todo = <<>>
       THEN /\ attempts' = EndAttempt("ok")
            /\ pc' = "next"
            /\ UNCHANGED <<document_list, disk, zip_folder, doc_rows, files_todo,
                           retry_attempt, exc>>
       ELSE \E move_ok \in BOOLEAN :
            LET r == process_extracted_file(document_list, disk, zip_folder, doc_rows, Head(files_todo), move_ok)
            IN /\ document_list' = r.list
               /\ disk' = r.disk
               /\ zip_folder' = r.zip_folder
               /\ doc_rows' = r.doc_rows
               /\ files_todo' = Tail(files_todo)
               /\ IF r.exc = ""
                  THEN /\ pc' = "zip_file"
                       /\ UNCHANGED <<attempts, retry_attempt, exc>>
                  ELSE /\ attempts' = EndAttempt(r.exc)
                       /\ IF retry_again(retry_attempt, r.exc)
                          THEN /\ retry_attempt' = retry_attempt + 1
                               /\ pc' = "multi"
                               /\ exc' = exc
                          ELSE /\ exc' = r.exc
                               /\ pc' = "handler"
                               /\ retry_attempt' = retry_attempt
    /\ UNCHANGED <<max_total_documents, client_folder_path, redownload_if_exists,
                   download_dir, client_row, page_num, total_pages, row_index,
                   invocations, clicks, calls,
                   on_login_page, folders, csv_file, runVars, excel_handler>>

\* lines 650-666: the next-page control after a page
NextPage ==
    /\ pc = "next"
    /\ \E control \in {"advanced", "disabled", "absent"} :
          IF page_num < total_pages
          THEN /\ pc' = after_next_page(control)
               /\ IF control = "advanced"
                  THEN /\ clicks' = Append(clicks, [kind |-> "next", page |-> page_num, row |-> 0])
                       /\ page_num' = page_num + 1
                       /\ on_login_page' \in BOOLEAN
                  ELSE UNCHANGED <<clicks, page_num, on_login_page>>
          ELSE /\ control = "advanced"
               /\ pc' = "finish"
               /\ UNCHANGED <<clicks, page_num, on_login_page>>
    /\ UNCHANGED <<max_total_documents, client_folder_path, document_list,
                   redownload_if_exists, disk, download_dir, zip_folder, doc_rows,
                   client_row, total_pages, retry_attempt, row_index, attempts,
                   files_todo, exc, invocations, calls,
                   folders, csv_file, runVars, excel_handler>>

\* main() lines 1109-1125: export_documents returned, the outcome is written
Finish ==
    /\ pc = "finish"
    /\ client_row' = [status |-> client_outcome(document_list, max_total_documents),
                      description |-> IF client_outcome(document_list, max_total_documents) = "Success"
                                      THEN "Download client documents successfully"
                                      ELSE "Download client documents with some errors"]
    /\ pc' = "done"
    /\ UNCHANGED <<max_total_documents, client_folder_path, document_list,
                   redownload_if_exists, disk, download_dir, zip_folder, doc_rows,
                   page_num, total_pages, retry_attempt, row_index, attempts,
                   files_todo, exc, invocations, clicks, calls,
                   on_login_page, folders, csv_file, runVars, excel_handler>>

\* main() lines 1133-1152: the exception handler of the client loop
ClientError ==
    /\ pc = "handler"
    /\ client_row' = [status |-> "Error", description |-> exc]
    /\ pc' = "done"
    /\ UNCHANGED <<max_total_documents, client_folder_path, document_list,
                   redownload_if_exists, disk, download_dir, zip_folder, doc_rows,
                   page_num, total_pages, retry_attempt, row_index, attempts,
                   files_todo, exc, invocations, clicks, calls,
                   on_login_page, folders, csv_file, runVars, excel_handler>>

Next ==
    \/ SearchClient
    \/ InitializeFolders
    \/ ExportCsvFile
    \/ ExportStart
    \/ PageBegin
    \/ SingleAttempt
    \/ MultiBegin
    \/ FallbackRow
    \/ ZipFile
    \/ NextPage
    \/ Finish
    \/ ClientError

Spec == Init /\ [][Next]_vars

----------------------------------------------------------------------------
(* The Client aggregate on its own: any sequence of add_document calls,    *)
(* interleaved with status updates of stored documents                     *)

\* the Documents a caller may pass: per id the listing's row and a second
\* Document with the same id and another description
CandidateDocuments(folder_path, files) ==
    {DocumentOfRow(id, folder_path, files) : id \in RowIds}
    \cup {NewDocument(id, <<>>, <<"T">>, <<"Z">>, <<>>, <<>>, TheClientName, TRUE, folder_path, files) : id \in RowIds}

ClientInit ==
    /\ pc = "client"
    /\ max_total_documents = 0
    /\ client_folder_path \in {<<>>, InitializedFolderPath}
    /\ document_list = <<>>
    /\ redownload_if_exists = TRUE
    /\ disk = {}
    /\ download_dir = <<>>
    /\ zip_folder = {}
    /\ doc_rows = <<>>
    /\ client_row = [status |-> "Pending", description |-> ""]
    /\ page_num = 0
    /\ total_pages = 0
    /\ retry_attempt = 0
    /\ row_index = 0
    /\ attempts = <<>>
    /\ files_todo = <<>>
    /\ exc = ""
    /\ invocations = <<>>
    /\ clicks = <<>>
    /\ calls = <<>>
    /\ on_login_page = FALSE
    /\ folders = {}
    /\ csv_file = <<>>
    /\ client_list = <<>>
    /\ client_index = 0
    /\ consecutive_errors = 0
    /\ emails_sent = <<>>
    /\ phases = <<>>
    /\ client_object = 0
    /\ email_handler = FALSE
    /\ excel_handler = NewExcelHandler(<<>>)

\* one call of Client.add_document
ClientAddDocument ==
    /\ pc = "client"
    /\ Len(calls) < MaxCalls
    /\ \E d \in CandidateDocuments(client_folder_path, disk) :
          /\ calls' = Append(calls, d)
          /\ document_list' = add_document(document_list, d, client_folder_path, disk)
    /\ UNCHANGED <<pc, max_total_documents, client_folder_path, redownload_if_exists,
                   disk, download_dir, zip_folder, doc_rows, client_row, page_num,
                   total_pages, retry_attempt, row_index, attempts, files_todo, exc,
                   invocations, clicks,
                   on_login_page, folders, csv_file, runVars, excel_handler>>

\* Document.set_download_status on a stored document
ClientSetStatus ==
    /\ pc = "client"
    /\ \E i \in 1..Len(document_list), status \in {"Success", "Error"} :
          /\ document_list[i].download_status = ""
          /\ document_list' = [document_list EXCEPT ![i] = set_download_status(@, status, status)]
    /\ UNCHANGED <<pc, max_total_documents, client_folder_path, redownload_if_exists,
                   disk, download_dir, zip_folder, doc_rows, client_row, page_num,
                   total_pages, retry_attempt, row_index, attempts, files_todo, exc,
                   invocations, clicks, calls,
                   on_login_page, folders, csv_file, runVars, excel_handler>>

ClientNext ==
    \/ ClientAddDocument
    \/ ClientSetStatus

SpecClient == ClientInit /\ [][ClientNext]_vars

----------------------------------------------------------------------------
(* The Client's folder operations on their own: any sequence of calls of   *)
(* its public folder methods and of add_document                           *)

FoldersInit ==
    /\ pc = "folders"
    /\ client_folder_path = <<>>
    /\ folders \in {{}, InitializedFolders}
    /\ document_list = <<>>
    /\ phases = <<>>
    /\ exc = ""
    /\ max_total_documents = 0
    /\ redownload_if_exists = TRUE
    /\ disk = {}
    /\ download_dir = <<>>
    /\ zip_folder = {}
    /\ doc_rows = <<>>
    /\ client_row = [status |-> "Pending", description |-> ""]
    /\ page_num = 0
    /\ total_pages = 0
    /\ retry_attempt = 0
    /\ row_index = 0
    /\ attempts = <<>>
    /\ files_todo = <<>>
    /\ invocations = <<>>
    /\ clicks = <<>>
    /\ calls = <<>>
    /\ on_login_page = FALSE
    /\ csv_file = <<>>
    /\ client_list = <<>>
    /\ client_index = 0
    /\ consecutive_errors = 0
    /\ emails_sent = <<>>
    /\ client_object = 0
    /\ email_handler = FALSE
    /\ excel_handler = NewExcelHandler(<<>>)

FoldersUntouched ==
    UNCHANGED <<pc, max_total_documents, redownload_if_exists, disk, download_dir,
                zip_folder, doc_rows, client_row, page_num, total_pages,
                retry_attempt, row_index, attempts, files_todo, invocations, clicks,
                calls, on_login_page, csv_file, client_list, client_index,
                consecutive_errors, emails_sent, client_object, email_handler,
                excel_handler>>

\* Client.add_document of a Document constructed for this client
FoldersAddDocument ==
    /\ pc = "folders"
    /\ Len(document_list) < MaxFolderDocs
    /\ \E id \in RowIds :
          document_list' = add_document(document_list,
                                        DocumentOfRow(id, client_folder_path, disk),
                                        client_folder_path, disk)
    /\ phases' = <<"add_document">>
    /\ exc' = ""
    /\ UNCHANGED <<client_folder_path, folders>>
    /\ FoldersUntouched

FoldersCreateClientFolder ==
    /\ pc = "folders"
    /\ \E makedirs_ok \in BOOLEAN :
          LET r == create_client_folder(client_folder_path, folders, makedirs_ok)
          IN /\ client_folder_path' = r.client_folder_path
             /\ folders' = r.folders
             /\ exc' = r.exc
    /\ phases' = <<"create_client_folder">>
    /\ UNCHANGED document_list
    /\ FoldersUntouched

FoldersCreateCategoryFolders ==
    /\ pc = "folders"
    /\ \E n_ok \in {0, 2, Len(get_all_categories)} :
          LET r == create_category_folders(client_folder_path, folders, n_ok)
          IN /\ client_folder_path' = r.client_folder_path
             /\ folders' = r.folders
             /\ exc' = r.exc
    /\ phases' = <<"create_category_folders">>
    /\ UNCHANGED document_list
    /\ FoldersUntouched

FoldersInitializeFolders ==
    /\ pc = "folders"
    /\ \E makedirs_ok \in BOOLEAN, n_ok \in {0, 2, Len(get_all_categories)} :
          LET r == initialize_folders(client_folder_path, folders, makedirs_ok, n_ok)
          IN /\ client_folder_path' = r.client_folder_path
             /\ folders' = r.folders
             /\ exc' = r.exc
    /\ phases' = <<"initialize_folders">>
    /\ UNCHANGED document_list
    /\ FoldersUntouched

FoldersCreateYearFolder ==
    /\ pc = "folders"
    /\ \E category \in {"Other", "Tax"}, year \in {<<>>, <<"2", "0", "2", "0">>}, n_ok \in 0..2 :
          LET r == create_year_folder(client_folder_path, folders, category, year, n_ok)
          IN /\ client_folder_path' = r.client_folder_path
             /\ folders' = r.folders
             /\ exc' = r.exc
    /\ phases' = <<"create_year_folder">>
    /\ UNCHANGED document_list
    /\ FoldersUntouched

FoldersNext ==
    \/ FoldersAddDocument
    \/ FoldersCreateClientFolder
    \/ FoldersCreateCategoryFolders
    \/ FoldersInitializeFolders
    \/ FoldersCreateYearFolder

SpecFolders == FoldersInit /\ [][FoldersNext]_vars

----------------------------------------------------------------------------
(* download_single_document_in_page on its own, over staging directories   *)
(* that already hold files: clean_download_dir skips a file it cannot      *)
(* delete, and a download may complete after its wait has timed out        *)

\* files that may be left in the staging directory
LeftoverFiles == {<<>>, <<<<"O">>>>, <<<<"O">>, <<"P">>>>}

StagingInit ==
    /\ pc = "staging"
    /\ client_folder_path = InitializedFolderPath
    /\ folders = InitializedFolders
    /\ \E id \in RowIds, logged \in BOOLEAN :
          /\ document_list = <<DocumentOfRow(id, InitializedFolderPath, {})>>
          /\ doc_rows = IF logged THEN [i \in {id} |-> [status |-> "", desc |-> ""]] ELSE <<>>
    /\ download_dir \in LeftoverFiles
    /\ max_total_documents = 1
    /\ redownload_if_exists = TRUE
    /\ disk = {}
    /\ zip_folder = {}
    /\ client_row = [status |-> "InProgress", description |-> "Downloading documents..."]
    /\ page_num = 1
    /\ total_pages = 1
    /\ retry_attempt = 0
    /\ row_index = 0
    /\ attempts = <<>>
    /\ files_todo = <<>>
    /\ exc = ""
    /\ invocations = <<>>
    /\ clicks = <<>>
    /\ calls = <<>>
    /\ on_login_page = FALSE
    /\ csv_file = <<>>
    /\ client_list = <<>>
    /\ client_index = 0
    /\ consecutive_errors = 0
    /\ emails_sent = <<>>
    /\ phases = <<>>
    /\ client_object = 0
    /\ email_handler = FALSE
    /\ excel_handler = NewExcelHandler(<<>>)

\* one call of download_single_document_in_page for row 0
StagingSingleExport ==
    /\ pc = "staging"
    /\ Len(invocations) < MaxStagingCalls
    /\ LET id == document_list[1].document_id
       IN \E o \in OutcomesForRow(document_list, id) :
          LET r == download_single_document_in_page(document_list, disk, download_dir, doc_rows, id, o)
          IN /\ document_list' = r.list
             /\ disk' = r.disk
             /\ download_dir' = r.download_dir
             /\ doc_rows' = r.doc_rows
             /\ exc' = r.exc
             /\ clicks' = IF r.clicked THEN Append(clicks, [kind |-> "single", page |-> page_num, row |-> 0]) ELSE clicks
             /\ invocations' = Append(invocations,
                                  [page |-> page_num, attempt |-> Len(invocations), row |-> 0,
                                   result |-> ResultOf(r.exc), mismatch |-> r.mismatch,
                                   clicked |-> r.clicked, staged |-> r.staged, disk_before |-> disk])
    /\ UNCHANGED <<pc, max_total_documents, client_folder_path, redownload_if_exists,
                   zip_folder, client_row, page_num, total_pages, retry_attempt,
                   row_index, attempts, files_todo, calls, on_login_page, folders,
                   csv_file, runVars, excel_handler>>

StagingNext == StagingSingleExport

SpecStaging == StagingInit /\ [][StagingNext]_vars

----------------------------------------------------------------------------
(* export_csv_file and _read_csv_file over the listing file as the portal  *)
(* wrote it: a sequence of rows, the first one the header, each row a     *)
(* sequence of cells                                                       *)

\* str.strip('"'): leading and trailing double quotes removed
RECURSIVE LStripQuote(_)
LStripQuote(s) == IF s # <<>> /\ Head(s) = "\"" THEN LStripQuote(Tail(s)) ELSE s

RECURSIVE RStripQuote(_)
RStripQuote(s) == IF s # <<>> /\ s[Len(s)] = "\"" THEN RStripQuote(SubSeq(s, 1, Len(s) - 1)) ELSE s

\* cell.strip().strip('"')
CellValue(cell) == RStripQuote(LStripQuote(Strip(cell)))

\* list.index(name): 0 where Python raises ValueError
HeaderIndex(header, name) ==
    IF \E i \in 1..Len(header) : header[i] = name
    THEN CHOOSE i \in 1..Len(header) : header[i] = name /\ \A j \in 1..(i - 1) : header[j] # name
    ELSE 0

\* the keys of documents_data in insertion order: a repeated Document ID
\* overwrites its entry and keeps its place
RECURSIVE DictKeys(_)
DictKeys(ids) ==
    IF ids = <<>> THEN <<>>
    ELSE LET rest == DictKeys(SubSeq(ids, 1, Len(ids) - 1))
             k == ids[Len(ids)]
         IN IF k \in Range(rest) THEN rest ELSE Append(rest, k)

\* _read_csv_file without the comparison of lines 529-534
read_csv_file_unchecked(csv, client_number_check) ==
    IF csv = <<>> THEN [exc |-> "CSVExportError", ids |-> <<>>]
    ELSE LET header == csv[1]
             doc_id_index == HeaderIndex(header, "Document ID")
             client_name_index == HeaderIndex(header, "Client Name")
             client_number_index == HeaderIndex(header, "Client Number")
         IN IF doc_id_index = 0 \/ client_name_index = 0 \/ client_number_index = 0
            THEN [exc |-> "CSVExportError", ids |-> <<>>]
            ELSE IF Len(csv) = 1 THEN [exc |-> "", ids |-> <<>>]
            ELSE [exc |-> "",
                  ids |-> DictKeys([i \in 1..(Len(csv) - 1) |-> CellValue(csv[i + 1][doc_id_index])])]

\* _read_csv_file(csv_file_path, client_name_check, client_number_check):
\* the exception it raises ("" when it returns) and the Document IDs read
read_csv_file(csv, client_number_check) ==
    IF csv = <<>> THEN [exc |-> "CSVExportError", ids |-> <<>>]
    ELSE LET header == csv[1]
             doc_id_index == HeaderIndex(header, "Document ID")
             client_name_index == HeaderIndex(header, "Client Name")
             client_number_index == HeaderIndex(header, "Client Number")
         IN IF doc_id_index = 0 \/ client_name_index = 0 \/ client_number_index = 0
            THEN [exc |-> "CSVExportError", ids |-> <<>>]
            ELSE IF Len(csv) = 1 THEN [exc |-> "", ids |-> <<>>]
            ELSE LET first_data_row == csv[2]
                     actual_client_number == CellValue(first_data_row[client_number_index])
                 IN IF actual_client_number # client_number_check
                    THEN [exc |-> "CSVExportError", ids |-> <<>>]
                    ELSE [exc |-> "",
                          ids |-> DictKeys([i \in 1..(Len(csv) - 1) |-> CellValue(csv[i + 1][doc_id_index])])]

\* the rows add_document_row appends: one for each document without a row
AddDocumentRows(rows, ids) ==
    [id \in DOMAIN rows \cup Range(ids) |->
        IF id \in DOMAIN rows THEN rows[id] ELSE [status |-> "", desc |-> ""]]

\* export_csv_file(client_object) once the listing file has arrived or not:
\* the exception it raises, the client's documents and the document log
export_csv_file(csv, download, list, folder_path, files, rows, sheet_ok) ==
    IF download = "timeout"
    THEN [exc |-> "FileDownloadTimeoutError", list |-> list, doc_rows |-> rows]
    ELSE IF download = "move_failed"
    THEN [exc |-> "FileOperationError", list |-> list, doc_rows |-> rows]
    ELSE LET documents_data == read_csv_file(csv, TheClientNumber)
         IN IF documents_data.exc # ""
            THEN [exc |-> documents_data.exc, list |-> list, doc_rows |-> rows]
            ELSE [exc |-> "",
                  list |-> AddAll(list, documents_data.ids, folder_path, files),
                  doc_rows |-> IF sheet_ok THEN AddDocumentRows(rows, documents_data.ids) ELSE rows]

\* the headers the portal may write
CsvHeaders ==
    {<<"Document ID", "Client Name", "Client Number">>,
     <<"Client Number", "Document ID", "Client Name">>,
     <<"Document ID", "Client Name">>}

\* the cells a Document ID and a Client Number may be written as
IdCells == RowIds \cup {<<"\"", "7", "\"">>}

NumberCells == {TheClientNumber, <<" ", "5", " ">>, <<"\"", "5", "\"">>, <<"6">>}

\* a data row under a header
CsvRow(header, id_cell, number_cell) ==
    [i \in 1..Len(header) |->
        IF header[i] = "Document ID" THEN id_cell
        ELSE IF header[i] = "Client Number" THEN number_cell
        ELSE TheClientName]

\* the listing files: a header and at most MaxCsvRows data rows
CsvFiles ==
    {<<>>} \cup
    UNION {{<<header>> \o [i \in 1..n |-> CsvRow(header, cells[i][1], cells[i][2])] :
               cells \in [1..n -> IdCells \X NumberCells]} :
           header \in CsvHeaders, n \in 0..MaxCsvRows}

CsvInit ==
    /\ pc = "csv"
    /\ csv_file \in CsvFiles
    /\ client_folder_path = InitializedFolderPath
    /\ folders = InitializedFolders
    /\ document_list = <<>>
    /\ doc_rows \in {<<>>, [i \in {<<"7">>} |-> [status |-> "Success", desc |-> ""]]}
    /\ max_total_documents \in 1..MaxCsvRows
    /\ redownload_if_exists = TRUE
    /\ disk = {}
    /\ download_dir = <<>>
    /\ zip_folder = {}
    /\ client_row = [status |-> "InProgress", description |-> "Downloading documents..."]
    /\ page_num = 0
    /\ total_pages = 0
    /\ retry_attempt = 0
    /\ row_index = 0
    /\ attempts = <<>>
    /\ files_todo = <<>>
    /\ exc = ""
    /\ invocations = <<>>
    /\ clicks = <<>>
    /\ calls = <<>>
    /\ on_login_page = FALSE
    /\ client_list = <<>>
    /\ client_index = 0
    /\ consecutive_errors = 0
    /\ emails_sent = <<>>
    /\ phases = <<>>
    /\ client_object = 0
    /\ email_handler = FALSE
    /\ excel_handler = NewExcelHandler(<<>>)

\* one call of export_csv_file
CsvExportCsvFile ==
    /\ pc = "csv"
    /\ \E download \in {"ok", "timeout", "move_failed"}, sheet_ok \in BOOLEAN :
          LET r == export_csv_file(csv_file, download, document_list, client_folder_path, disk, doc_rows, sheet_ok)
          IN /\ exc' = r.exc
             /\ document_list' = r.list
             /\ doc_rows' = r.doc_rows
             /\ pc' = IF r.exc = "" THEN "csv_done" ELSE "csv_failed"
    /\ UNCHANGED <<max_total_documents, client_folder_path, redownload_if_exists,
                   disk, download_dir, zip_folder, client_row, page_num, total_pages,
                   retry_attempt, row_index, attempts, files_todo, invocations,
                   clicks, calls, on_login_page, folders, csv_file, runVars, excel_handler>>

CsvNext == CsvExportCsvFile

SpecCsv == CsvInit /\ [][CsvNext]_vars

----------------------------------------------------------------------------
(* The document sheet on its own: listing exports of several clients,      *)
(* status updates of downloads and a new run reading the saved workbook    *)

\* the clients whose listings are recorded: one name under two numbers
LedgerClients ==
    {[client_name |-> TheClientName, client_number |-> TheClientNumber],
     [client_name |-> TheClientName, client_number |-> <<"6">>]}

\* the listings recorded: at most MaxLedgerDocs of the ids, in any order
LedgerListings == InjectiveSeqs(RowIds \ {<<"7", "7">>}, MaxLedgerDocs)

\* export_csv_file lines 437-467 for the documents of one listing: a row is
\* added for each document the lookup does not find; a sheet error is logged
RECURSIVE RecordListing(_, _, _, _)
RecordListing(handler, ids, client, header_ok) ==
    IF ids = <<>> THEN handler
    ELSE LET existing_row_index == get_document_row_index(handler.document_list, client.client_name, client.client_number, Head(ids))
             added == add_document_row(handler, Head(ids), client.client_name, client.client_number, header_ok)
         IN RecordListing(IF existing_row_index = 0 THEN added.handler ELSE handler,
                          Tail(ids), client, header_ok)

LedgerInit ==
    /\ pc = "ledger"
    /\ excel_handler = NewExcelHandler(<<>>)
    /\ client_folder_path = InitializedFolderPath
    /\ folders = InitializedFolders
    /\ document_list = <<>>
    /\ doc_rows = <<>>
    /\ max_total_documents = 0
    /\ redownload_if_exists = TRUE
    /\ disk = {}
    /\ download_dir = <<>>
    /\ zip_folder = {}
    /\ client_row = [status |-> "InProgress", description |-> "Downloading documents..."]
    /\ page_num = 0
    /\ total_pages = 0
    /\ retry_attempt = 0
    /\ row_index = 0
    /\ attempts = <<>>
    /\ files_todo = <<>>
    /\ exc = ""
    /\ invocations = <<>>
    /\ clicks = <<>>
    /\ calls = <<>>
    /\ on_login_page = FALSE
    /\ csv_file = <<>>
    /\ client_list = <<>>
    /\ client_index = 0
    /\ consecutive_errors = 0
    /\ emails_sent = <<>>
    /\ phases = <<>>
    /\ client_object = 0
    /\ email_handler = FALSE

LedgerUntouched ==
    UNCHANGED <<pc, max_total_documents, client_folder_path, document_list,
                redownload_if_exists, disk, download_dir, zip_folder, doc_rows,
                client_row, page_num, total_pages, retry_attempt, row_index,
                attempts, files_todo, invocations, clicks, on_login_page, folders,
                csv_file, client_list, client_index, consecutive_errors,
                emails_sent, client_object, email_handler>>

\* export_csv_file records the listing of one client
LedgerExportCsvFile ==
    /\ pc = "ledger"
    /\ \E client \in LedgerClients, ids \in LedgerListings, header_ok \in BOOLEAN :
          /\ excel_handler' = RecordListing(excel_handler, ids, client, header_ok)
          /\ calls' = <<[client |-> client, ids |-> ids]>>
          /\ phases' = <<"export_csv_file">>
          /\ exc' = ""
    /\ LedgerUntouched

\* lines 809-822 and 938-950: a download writes its outcome to the row found
LedgerUpdateDocumentRow ==
    /\ pc = "ledger"
    /\ \E client \in LedgerClients, id \in UNION {Range(l) : l \in LedgerListings}, header_ok \in BOOLEAN :
          LET excel_row == get_document_row_index(excel_handler.document_list, client.client_name, client.client_number, id)
              r == update_document_row(excel_handler, excel_row, "Success", "File downloaded successfully", header_ok)
          IN /\ excel_handler' = r.handler
             /\ exc' = r.exc
             /\ calls' = <<[client |-> client, ids |-> <<id>>]>>
             /\ phases' = <<"update_document_row">>
    /\ LedgerUntouched

\* a later run: ExcelHandler.__init__ reads the saved sheet again
LedgerNewRun ==
    /\ pc = "ledger"
    /\ phases # <<"ExcelHandler">>
    /\ excel_handler' = NewExcelHandler(excel_handler.document_list_sheet)
    /\ calls' = <<>>
    /\ phases' = <<"ExcelHandler">>
    /\ exc' = ""
    /\ LedgerUntouched

LedgerNext ==
    \/ LedgerExportCsvFile
    \/ LedgerUpdateDocumentRow
    \/ LedgerNewRun

SpecLedger == LedgerInit /\ [][LedgerNext]_vars

----------------------------------------------------------------------------
(* The Document on its own: constructed from the field values a listing    *)
(* row or a caller may supply, then its names derived again and its paths  *)
(* updated again while its Client stays as it is                           *)

\* the values of the text fields
ClientNames == {<<>>, TheClientName, <<"A", "/", "B">>}

Years ==
    {<<>>, <<"2", "0", "1", "8">>, <<"2", "0", "1", "7">>, <<"2", "0", "2", "0">>,
     <<"a", "b", "c">>, <<" ">>, <<" ", "2", "0", "1", "8">>, <<"+", "2", "0", "1", "9">>,
     <<"2", "_", "0", "1", "7">>, <<"2", "0", ".", "5">>}

DocumentTypes == {<<>>, <<"I", "n", "v", "o", "i", "c", "e">>, <<"?">>}

Descriptions == {<<>>, <<"Q", "1">>, <<"v", "1", ".", "2">>}

FileTypes == {<<>>, <<"p", "d", "f">>, <<"t", ".", "g">>, <<"a", "/", "b">>}

DocumentIds == {<<>>, <<"7">>}

FileSections ==
    {<<>>, <<"B", "o", "o", "k", "k", "e", "e", "p", "i", "n", "g">>,
     <<"C", "l", "i", "e", "n", "t", "f", "l", "o", "w">>}

\* the arguments of Document(...): with a Client or without one, the Client
\* with its folder path set or not
DocumentArguments ==
    [document_id : DocumentIds, file_section : FileSections, document_type : DocumentTypes,
     description : Descriptions, year : Years, file_type : FileTypes,
     client_name : ClientNames,
     client : {[has_client |-> FALSE, client_folder_path |-> <<>>],
               [has_client |-> TRUE, client_folder_path |-> <<>>],
               [has_client |-> TRUE, client_folder_path |-> InitializedFolderPath]}]

\* the names derived again with the splice applied to the name with id
rederive_names_from_current(doc) ==
    [doc EXCEPT !.document_name_with_id = generate_document_name_with_id(doc.document_name_with_id, doc.document_id)]

\* _generate_document_name_without_id and _generate_document_name_with_id
\* called again and stored as __init__ stores them
rederive_names(doc) ==
    LET without == generate_document_name_without_id(doc.client_name, doc.year, doc.document_type, doc.description, doc.file_type)
    IN [doc EXCEPT !.document_name_without_id = without,
                   !.document_name_with_id = generate_document_name_with_id(without, doc.document_id)]

DocumentInit ==
    /\ pc = "document"
    /\ calls \in {<<a>> : a \in DocumentArguments}
    /\ client_folder_path = calls[1].client.client_folder_path
    /\ folders = IF client_folder_path = <<>> THEN {} ELSE InitializedFolders
    /\ document_list = <<>>
    /\ doc_rows = <<>>
    /\ max_total_documents = 0
    /\ redownload_if_exists = TRUE
    /\ disk = {}
    /\ download_dir = <<>>
    /\ zip_folder = {}
    /\ client_row = [status |-> "Pending", description |-> ""]
    /\ page_num = 0
    /\ total_pages = 0
    /\ retry_attempt = 0
    /\ row_index = 0
    /\ attempts = <<>>
    /\ files_todo = <<>>
    /\ exc = ""
    /\ invocations = <<>>
    /\ clicks = <<>>
    /\ on_login_page = FALSE
    /\ csv_file = <<>>
    /\ client_list = <<>>
    /\ client_index = 0
    /\ consecutive_errors = 0
    /\ emails_sent = <<>>
    /\ phases = <<>>
    /\ client_object = 0
    /\ email_handler = FALSE
    /\ excel_handler = NewExcelHandler(<<>>)

DocumentUntouched ==
    UNCHANGED <<max_total_documents, client_folder_path, redownload_if_exists, disk,
                download_dir, zip_folder, doc_rows, client_row, page_num, total_pages,
                retry_attempt, row_index, attempts, files_todo, exc, invocations,
                clicks, calls, on_login_page, folders, csv_file, client_list,
                client_index, consecutive_errors, emails_sent, client_object,
                email_handler, excel_handler>>

\* Document.__init__
DocumentConstruct ==
    /\ pc = "document"
    /\ LET a == calls[1]
       IN document_list' = <<NewDocument(a.document_id, a.file_section, a.document_type, a.description, a.year, a.file_type, a.client_name, a.client.has_client, a.client.client_folder_path, disk)>>
    /\ pc' = "constructed"
    /\ phases' = <<"Document">>
    /\ DocumentUntouched

\* the two name methods called once more
DocumentRederiveNames ==
    /\ pc = "constructed"
    /\ Len(phases) < MaxRederivations
    /\ document_list' = <<rederive_names(document_list[1])>>
    /\ phases' = Append(phases, "generate_document_name")
    /\ pc' = pc
    /\ DocumentUntouched

\* Document.update_paths called once more
DocumentUpdatePaths ==
    /\ pc = "constructed"
    /\ Len(phases) < MaxRederivations
    /\ document_list' = <<update_paths(document_list[1], calls[1].client.has_client, client_folder_path, disk)>>
    /\ phases' = Append(phases, "update_paths")
    /\ pc' = pc
    /\ DocumentUntouched

DocumentNext ==
    \/ DocumentConstruct
    \/ DocumentRederiveNames
    \/ DocumentUpdatePaths

SpecDocument == DocumentInit /\ [][DocumentNext]_vars

----------------------------------------------------------------------------
(* get_document_category on its own, over Python values of any type: a     *)
(* value is its type and, for a str, its text                              *)

PyStr(text) == [type |-> "str", text |-> text]

PyNone == [type |-> "NoneType", text |-> <<>>]

\* an int: 0 is falsy, any other is not
PyInt(digits) == [type |-> "int", text |-> digits]

\* Python's truth value of v
Truthy(v) ==
    IF v.type = "NoneType" THEN FALSE
    ELSE IF v.type = "int" THEN v.text # <<"0">>
    ELSE v.text # <<>>

\* (v or "").strip().lower(): raised where the value has no strip()
NormalizedText(v) ==
    IF ~Truthy(v) THEN [raised |-> FALSE, text |-> <<>>]
    ELSE IF v.type = "str" THEN [raised |-> FALSE, text |-> StrLower(Strip(v.text))]
    ELSE [raised |-> TRUE, text |-> <<>>]

\* a plausible slip: only the section is normalized
category_of_section_only(file_section, document_type, description) ==
    IF NormalizedText(file_section).raised THEN "Other"
    ELSE get_document_category(NormalizedText(file_section).text, <<>>, <<>>)

\* get_document_category over any values: the three arguments are normalized
\* first, and an exception of that step is answered with "Other"
get_document_category_of(file_section, document_type, description) ==
    IF NormalizedText(file_section).raised \/ NormalizedText(document_type).raised
       \/ NormalizedText(description).raised
    THEN "Other"
    ELSE get_document_category(NormalizedText(file_section).text,
                               NormalizedText(document_type).text,
                               NormalizedText(description).text)

\* the values passed to the classifier
SectionValues ==
    {PyNone, PyInt(<<"0">>), PyInt(<<"5">>), PyStr(<<>>), PyStr(<<"#">>),
     PyStr(<<"B", "o", "o", "k", "k", "e", "e", "p", "i", "n", "g">>),
     PyStr(<<" ", "B", "o", "o", "k", "k", "e", "e", "p", "i", "n", "g", " ">>),
     PyStr(<<"C", "l", "i", "e", "n", "t", "f", "l", "o", "w">>)}

OtherValues == {PyNone, PyInt(<<"5">>), PyStr(<<>>), PyStr(<<"T">>)}

ClassifierInit ==
    /\ pc = "classify"
    /\ calls \in {<<[file_section |-> s, document_type |-> t, description |-> d]>> :
                     s \in SectionValues, t \in OtherValues, d \in OtherValues}
    /\ phases = <<>>
    /\ client_folder_path = <<>>
    /\ folders = {}
    /\ document_list = <<>>
    /\ doc_rows = <<>>
    /\ max_total_documents = 0
    /\ redownload_if_exists = TRUE
    /\ disk = {}
    /\ download_dir = <<>>
    /\ zip_folder = {}
    /\ client_row = [status |-> "Pending", description |-> ""]
    /\ page_num = 0
    /\ total_pages = 0
    /\ retry_attempt = 0
    /\ row_index = 0
    /\ attempts = <<>>
    /\ files_todo = <<>>
    /\ exc = ""
    /\ invocations = <<>>
    /\ clicks = <<>>
    /\ on_login_page = FALSE
    /\ csv_file = <<>>
    /\ client_list = <<>>
    /\ client_index = 0
    /\ consecutive_errors = 0
    /\ emails_sent = <<>>
    /\ client_object = 0
    /\ email_handler = FALSE
    /\ excel_handler = NewExcelHandler(<<>>)

\* one call of get_document_category; its result is kept in phases
ClassifierCall ==
    /\ pc = "classify"
    /\ phases' = <<get_document_category_of(calls[1].file_section, calls[1].document_type, calls[1].description)>>
    /\ pc' = "classified"
    /\ UNCHANGED <<max_total_documents, client_folder_path, document_list,
                   redownload_if_exists, disk, download_dir, zip_folder, doc_rows,
                   client_row, page_num, total_pages, retry_attempt, row_index,
                   attempts, files_todo, exc, invocations, clicks, calls,
                   on_login_page, folders, csv_file, client_list, client_index,
                   consecutive_errors, emails_sent, client_object, email_handler,
                   excel_handler>>

ClassifierNext == ClassifierCall

SpecClassifier == ClassifierInit /\ [][ClassifierNext]_vars

----------------------------------------------------------------------------
(* main(): the loop over the pending clients. The calls made for a client  *)
(* are taken as single steps: each returns or raises, and export_documents *)
(* leaves some of the listed documents "Success".                          *)

\* what the run loop keeps of a Document
RunDocument(status) == [download_status |-> status]

PendingRow ==
    [status |-> "Pending", total_documents |-> 0, num_files_downloaded |-> 0,
     client_folder_path |-> <<>>, owner |-> 0]

\* excel_handler.update_client_row with the values of client_object
ClientRow(status) ==
    [status |-> status, total_documents |-> max_total_documents,
     num_files_downloaded |-> get_number_of_downloaded_documents(document_list),
     client_folder_path |-> client_folder_path, owner |-> client_object]

\* a plausible slip: the loop goes on after the threshold
never_halts(errors) == FALSE

\* lines 1154-1162: the run halts
threshold_reached(errors) == errors >= MAX_CONSECUTIVE_ERRORS

\* a plausible slip: a failed client is left as it was and skipped
handler_status_unchanged(status) == status

\* lines 1145-1146: the status the handler writes
handler_status(status) == "Error"

\* a plausible slip: the zero-document client is sent on to the listing
zero_documents_ignored(n) == FALSE

\* line 1091: the zero-document test
has_no_documents(n) == n = 0

RunInit ==
    /\ pc = "run_next"
    /\ \E n \in 1..MaxClients : client_list = [i \in 1..n |-> PendingRow]
    /\ client_index = 1
    /\ consecutive_errors = 0
    /\ emails_sent = <<>>
    /\ phases = <<>>
    /\ client_object = 0
    /\ email_handler \in BOOLEAN
    /\ excel_handler = NewExcelHandler(<<>>)
    /\ max_total_documents = 0
    /\ client_folder_path = <<>>
    /\ document_list = <<>>
    /\ redownload_if_exists = TRUE
    /\ disk = {}
    /\ download_dir = <<>>
    /\ zip_folder = {}
    /\ doc_rows = <<>>
    /\ client_row = [status |-> "Pending", description |-> ""]
    /\ page_num = 0
    /\ total_pages = 0
    /\ retry_attempt = 0
    /\ row_index = 0
    /\ attempts = <<>>
    /\ files_todo = <<>>
    /\ exc = ""
    /\ invocations = <<>>
    /\ clicks = <<>>
    /\ calls = <<>>
    /\ on_login_page = FALSE
    /\ folders = {}
    /\ csv_file = <<>>

RunUntouched ==
    UNCHANGED <<redownload_if_exists, disk, download_dir, zip_folder, doc_rows,
                client_row, page_num, total_pages, retry_attempt, row_index,
                attempts, files_todo, invocations, clicks, calls, on_login_page,
                folders, csv_file, email_handler, excel_handler>>

\* lines 1063-1074: the next client_info, clean_download_dir and Client()
RunBegin ==
    /\ pc = "run_next"
    /\ IF client_index > Len(client_list)
       THEN /\ pc' = "run_end"
            /\ UNCHANGED <<phases, exc, client_object, max_total_documents,
                           client_folder_path, document_list>>
       ELSE \E cleaned \in BOOLEAN :
               IF cleaned
               THEN /\ client_object' = client_index
                    /\ max_total_documents' = 0
                    /\ client_folder_path' = <<>>
                    /\ document_list' = <<>>
                    /\ phases' = <<"clean_download_dir", "Client">>
                    /\ exc' = ""
                    /\ pc' = "run_search"
               ELSE /\ phases' = <<"clean_download_dir">>
                    /\ exc' = "FileOperationError"
                    /\ pc' = "run_handler"
                    /\ UNCHANGED <<client_object, max_total_documents,
                                   client_folder_path, document_list>>
    /\ UNCHANGED <<client_list, client_index, consecutive_errors, emails_sent>>
    /\ RunUntouched

\* line 1077: search_client
RunSearchClient ==
    /\ pc = "run_search"
    /\ phases' = Append(phases, "search_client")
    /\ \E e \in {"", "ClientNotFoundError", "WebNavigationError"}, n \in 0..MaxTotal :
          IF e = ""
          THEN /\ max_total_documents' = n
               /\ pc' = "run_folders"
               /\ exc' = exc
          ELSE /\ n = 0
               /\ max_total_documents' = max_total_documents
               /\ pc' = "run_handler"
               /\ exc' = e
    /\ UNCHANGED <<client_list, client_index, consecutive_errors, emails_sent,
                   client_object, client_folder_path, document_list>>
    /\ RunUntouched

\* lines 1080-1102: initialize_folders, the "InProgress" row and the
\* zero-document exit
RunInitializeFolders ==
    /\ pc = "run_folders"
    /\ phases' = Append(phases, "initialize_folders")
    /\ \E ok \in BOOLEAN :
          IF ok
          THEN /\ client_folder_path' = InitializedFolderPath
               /\ exc' = exc
               /\ IF has_no_documents(max_total_documents)
                  THEN /\ client_list' = [client_list EXCEPT ![client_index] =
                                             [status |-> "Success", total_documents |-> 0,
                                              num_files_downloaded |-> 0,
                                              client_folder_path |-> InitializedFolderPath,
                                              owner |-> client_object]]
                       /\ client_index' = client_index + 1
                       /\ pc' = "run_next"
                  ELSE /\ client_list' = [client_list EXCEPT ![client_index] =
                                             [status |-> "InProgress",
                                              total_documents |-> max_total_documents,
                                              num_files_downloaded |-> 0,
                                              client_folder_path |-> InitializedFolderPath,
                                              owner |-> client_object]]
                       /\ client_index' = client_index
                       /\ pc' = "run_listing"
          ELSE /\ client_folder_path' = <<>>
               /\ exc' = "FolderCreationError"
               /\ pc' = "run_handler"
               /\ UNCHANGED <<client_list, client_index>>
    /\ UNCHANGED <<consecutive_errors, emails_sent, client_object,
                   max_total_documents, document_list>>
    /\ RunUntouched

\* line 1105: export_csv_file
RunExportCsvFile ==
    /\ pc = "run_listing"
    /\ phases' = Append(phases, "export_csv_file")
    /\ \E e \in {"", "CSVExportError", "FileDownloadTimeoutError", "FileOperationError"},
          k \in 0..Min(MaxDocs, max_total_documents) :
          IF e = ""
          THEN /\ document_list' = [i \in 1..k |-> RunDocument("")]
               /\ pc' = "run_export"
               /\ exc' = exc
          ELSE /\ k = 0
               /\ document_list' = document_list
               /\ pc' = "run_handler"
               /\ exc' = e
    /\ UNCHANGED <<client_list, client_index, consecutive_errors, emails_sent,
                   client_object, max_total_documents, client_folder_path>>
    /\ RunUntouched

\* line 1107: export_documents
RunExportDocuments ==
    /\ pc = "run_export"
    /\ phases' = Append(phases, "export_documents")
    /\ \E e \in {"", "DocumentExportError", "WebNavigationError",
                 "FileDownloadTimeoutError", "FileOperationError"},
          done \in 0..Len(document_list) :
          /\ document_list' = [i \in 1..Len(document_list) |->
                                  RunDocument(IF i <= done THEN "Success" ELSE "")]
          /\ exc' = e
          /\ pc' = IF e = "" THEN "run_outcome" ELSE "run_handler"
    /\ UNCHANGED <<client_list, client_index, consecutive_errors, emails_sent,
                   client_object, max_total_documents, client_folder_path>>
    /\ RunUntouched

\* lines 1109-1131: the outcome of a client whose calls all returned
RunOutcome ==
    /\ pc = "run_outcome"
    /\ client_list' = [client_list EXCEPT ![client_index] =
                          ClientRow(client_outcome(document_list, max_total_documents))]
    /\ consecutive_errors' = 0
    /\ client_index' = client_index + 1
    /\ pc' = "run_next"
    /\ UNCHANGED <<emails_sent, phases, exc, client_object, max_total_documents,
                   client_folder_path, document_list>>
    /\ RunUntouched

\* what may happen to a message handed to the SMTP server
SmtpOutcomes == {"sent", "build_fails", "smtp_fails"}

\* a plausible slip: a failure of the SMTP session is not caught
send_error_email_raising(enabled, smtp) ==
    IF ~enabled THEN [raised |-> FALSE, sent |-> FALSE]
    ELSE IF smtp = "sent" THEN [raised |-> FALSE, sent |-> TRUE]
    ELSE [raised |-> smtp = "smtp_fails", sent |-> FALSE]

\* EmailHandler.send_error_email: its return value, and whether it raised
send_error_email(enabled, smtp) ==
    IF ~enabled THEN [raised |-> FALSE, sent |-> FALSE]
    ELSE IF smtp = "sent" THEN [raised |-> FALSE, sent |-> TRUE]
    ELSE [raised |-> FALSE, sent |-> FALSE]

\* EmailHandler.send_critical_error_email
send_critical_error_email(enabled, smtp) == send_error_email(enabled, smtp)

\* main() lines 1170-1185: the outer handler's notification, appended to log
ScriptStopped(log, smtp) ==
    IF email_handler
    THEN Append(log, [kind |-> "script_stopped", sent |-> send_error_email(TRUE, smtp).sent])
    ELSE log

\* lines 1133-1163: the handler of the client loop; with client_object not
\* bound the handler itself raises and main()'s outer handler ends the run,
\* as it does when a notification raises
RunHandler ==
    /\ pc = "run_handler"
    /\ consecutive_errors' = consecutive_errors + 1
    /\ \E smtp \in SmtpOutcomes, smtp_outer \in SmtpOutcomes :
       IF client_object = 0
       THEN /\ smtp = "sent"
            /\ exc' = "UnboundLocalError"
            /\ emails_sent' = ScriptStopped(emails_sent, smtp_outer)
            /\ pc' = "run_end"
            /\ UNCHANGED <<client_list, client_index>>
       ELSE /\ client_list' = [client_list EXCEPT ![client_index] =
                                  ClientRow(handler_status(client_list[client_index].status))]
            /\ IF threshold_reached(consecutive_errors + 1)
               THEN /\ client_index' = client_index
                    /\ pc' = "run_end"
                    /\ IF email_handler
                       THEN LET r == send_critical_error_email(TRUE, smtp)
                                attempted == Append(emails_sent, [kind |-> "critical_error", sent |-> r.sent])
                            IN IF r.raised
                               THEN /\ exc' = "SMTPException"
                                    /\ emails_sent' = ScriptStopped(attempted, smtp_outer)
                               ELSE /\ smtp_outer = "sent"
                                    /\ exc' = exc
                                    /\ emails_sent' = attempted
                       ELSE /\ smtp = "sent" /\ smtp_outer = "sent"
                            /\ exc' = exc
                            /\ emails_sent' = emails_sent
               ELSE /\ smtp = "sent" /\ smtp_outer = "sent"
                    /\ exc' = exc
                    /\ emails_sent' = emails_sent
                    /\ client_index' = client_index + 1
                    /\ pc' = "run_next"
    /\ UNCHANGED <<phases, client_object, max_total_documents, client_folder_path,
                   document_list>>
    /\ RunUntouched

RunNext ==
    \/ RunBegin
    \/ RunSearchClient
    \/ RunInitializeFolders
    \/ RunExportCsvFile
    \/ RunExportDocuments
    \/ RunOutcome
    \/ RunHandler

SpecRun == RunInit /\ [][RunNext]_vars

-----------------------------------------------------------------------------
(* gofileroom_download.py: the client loop of GofileRoomDownloader.run *)

\* a client's row of the sheet as run() writes it
LegacyRow(status, total, downloaded) ==
    [status |-> status, total_documents |-> total, num_files_downloaded |-> downloaded]

\* process_client: its return value and the two counters it leaves; it
\* returns True only after an export of a client that has documents, and it
\* catches every exception
LegacyOutcomes ==
    {[process_success |-> ok, total_documents |-> t, downloaded_documents |-> d] :
        ok \in BOOLEAN, t \in 0..MaxTotal, d \in 0..MaxTotal}
    \ {o \in [process_success : BOOLEAN, total_documents : 0..MaxTotal, downloaded_documents : 0..MaxTotal] :
          \/ o.downloaded_documents > o.total_documents
          \/ (o.process_success /\ o.total_documents = 0)}

\* lines 2300-2303 and 2333-2343: the exception raised at the threshold is
\* caught by the handler inside the loop, which ends with continue
legacy_after_stop(index) == "legacy_next"

LegacyInit ==
    /\ pc = "legacy_next"
    /\ \E n \in 1..MaxClients : client_list = [i \in 1..n |-> LegacyRow("Pending", 0, 0)]
    /\ client_index = 1
    /\ consecutive_errors = 0
    /\ emails_sent = <<>>
    /\ calls = <<>>
    /\ email_handler \in BOOLEAN
    /\ phases = <<>>
    /\ client_object = 0
    /\ excel_handler = NewExcelHandler(<<>>)
    /\ max_total_documents = 0
    /\ client_folder_path = <<>>
    /\ document_list = <<>>
    /\ redownload_if_exists = TRUE
    /\ disk = {}
    /\ download_dir = <<>>
    /\ zip_folder = {}
    /\ doc_rows = <<>>
    /\ client_row = [status |-> "Pending", description |-> ""]
    /\ page_num = 0
    /\ total_pages = 0
    /\ retry_attempt = 0
    /\ row_index = 0
    /\ attempts = <<>>
    /\ files_todo = <<>>
    /\ exc = ""
    /\ invocations = <<>>
    /\ clicks = <<>>
    /\ on_login_page = FALSE
    /\ folders = {}
    /\ csv_file = <<>>

LegacyUntouched ==
    UNCHANGED <<max_total_documents, client_folder_path, document_list,
                redownload_if_exists, disk, download_dir, zip_folder, doc_rows,
                client_row, page_num, total_pages, retry_attempt, row_index,
                attempts, files_todo, invocations, clicks, on_login_page,
                folders, csv_file, phases, client_object, email_handler,
                excel_handler>>

\* lines 2251-2258: the next client_info and the call of process_client
LegacyProcessClient ==
    /\ pc = "legacy_next"
    /\ IF client_index > Len(client_list)
       THEN /\ pc' = "legacy_end"
            /\ calls' = calls
       ELSE \E o \in LegacyOutcomes :
               /\ calls' = Append(calls, o @@ [client |-> client_index,
                                                errors_before |-> consecutive_errors])
               /\ pc' = "legacy_update"
    /\ UNCHANGED <<client_list, client_index, consecutive_errors, emails_sent, exc>>
    /\ LegacyUntouched

\* lines 2260-2343: the counter, the notification and the row of the client
\* that process_client has just handled; saved tells whether save_workbook
\* returned
LegacyUpdate ==
    /\ pc = "legacy_update"
    /\ client_index' = client_index + 1
    /\ \E saved \in BOOLEAN, smtp \in SmtpOutcomes :
       LET c == calls[Len(calls)]
           errors == IF c.process_success THEN 0
                     ELSE IF c.total_documents > 0 THEN consecutive_errors + 1
                     ELSE consecutive_errors
           stop == ~c.process_success /\ c.total_documents > 0 /\ errors >= MAX_CONSECUTIVE_ERRORS
           status == IF c.process_success
                     THEN IF c.total_documents = c.downloaded_documents THEN "Success" ELSE "Warning"
                     ELSE IF c.total_documents = 0 THEN "Warning" ELSE "Error"
       IN /\ consecutive_errors' = errors
          /\ IF stop
             THEN /\ saved
                  /\ emails_sent' = IF email_handler
                                    THEN Append(emails_sent, [kind |-> "critical_error",
                                                              sent |-> send_critical_error_email(TRUE, smtp).sent])
                                    ELSE emails_sent
                  /\ client_list' = [client_list EXCEPT ![client_index].status = "Error"]
                  /\ pc' = legacy_after_stop(client_index)
             ELSE /\ smtp = "sent"
                  /\ emails_sent' = emails_sent
                  /\ client_list' = [client_list EXCEPT ![client_index] =
                                        IF saved
                                        THEN LegacyRow(status, c.total_documents, c.downloaded_documents)
                                        ELSE LegacyRow("Error", c.total_documents, c.downloaded_documents)]
                  /\ pc' = "legacy_next"
    /\ UNCHANGED <<calls, exc>>
    /\ LegacyUntouched

LegacyNext ==
    \/ LegacyProcessClient
    \/ LegacyUpdate

SpecLegacy == LegacyInit /\ [][LegacyNext]_vars

-----------------------------------------------------------------------------
(* file_handler.py: wait_for_file_download polling a folder the browser
   writes to *)

\* str.endswith
EndsWith(s, suffix) ==
    /\ Len(s) >= Len(suffix)
    /\ SubSeq(s, Len(s) - Len(suffix) + 1, Len(s)) = suffix

Crdownload == <<".", "c", "r", "d", "o", "w", "n", "l", "o", "a", "d">>

Tmp == <<".", "t", "m", "p">>

\* line 372: the suffixes of a download in progress
TempSuffixes == {Crdownload, Tmp}

\* lines 371-372: the entries of the folder that end in a temporary suffix
temp_files(dir) ==
    {k \in 1..Len(dir) : \E suffix \in TempSuffixes : EndsWith(dir[k].name, suffix)}

\* lines 378-384: the regular files of the folder with the expected
\* extension, every regular file when none is given
listed_files(dir, expected_extension) ==
    {k \in 1..Len(dir) : dir[k].kind = "file" /\ EndsWith(dir[k].name, expected_extension)}

\* lines 388-389: the most recently modified of the listed files; the
\* folder is kept in the order of modification
latest_file(dir, listed) ==
    dir[CHOOSE k \in listed : \A j \in listed : j <= k].name

\* the entries of the staging folder: a subfolder that clean_download_dir
\* keeps, a file left by an earlier export
ZipSubfolder == [name |-> <<"0", "_", "z", "i", "p", "_">>, kind |-> "dir"]

LeftoverFile == [name |-> <<"b", ".", "p", "d", "f">>, kind |-> "file"]

\* the files the browser may download during the wait
DownloadNames == {<<"a", ".", "z", "i", "p">>, <<"c", ".", "p", "d", "f">>}

\* the extensions the callers pass: none (single export), ".zip" (bulk)
ExpectedExtensions == {<<>>, <<".", "z", "i", "p">>}

WaitInit ==
    /\ pc = "wait_poll"
    /\ download_dir \in {<<>>, <<ZipSubfolder>>, <<LeftoverFile>>, <<ZipSubfolder, LeftoverFile>>}
    /\ \E extension \in ExpectedExtensions : calls = <<[expected_extension |-> extension]>>
    /\ attempts = <<>>
    /\ files_todo = <<>>
    /\ phases = <<>>
    /\ exc = ""
    /\ max_total_documents = 0
    /\ client_folder_path = <<>>
    /\ document_list = <<>>
    /\ redownload_if_exists = TRUE
    /\ disk = {}
    /\ zip_folder = {}
    /\ doc_rows = <<>>
    /\ client_row = [status |-> "Pending", description |-> ""]
    /\ page_num = 0
    /\ total_pages = 0
    /\ retry_attempt = 0
    /\ row_index = 0
    /\ invocations = <<>>
    /\ clicks = <<>>
    /\ on_login_page = FALSE
    /\ folders = {}
    /\ csv_file = <<>>
    /\ client_list = <<>>
    /\ client_index = 0
    /\ consecutive_errors = 0
    /\ emails_sent = <<>>
    /\ client_object = 0
    /\ email_handler = FALSE
    /\ excel_handler = NewExcelHandler(<<>>)

WaitUntouched ==
    UNCHANGED <<max_total_documents, client_folder_path, document_list,
                redownload_if_exists, disk, zip_folder, doc_rows, client_row,
                page_num, total_pages, retry_attempt, row_index, invocations,
                clicks, calls, on_login_page, folders, csv_file, client_list,
                client_index, consecutive_errors, emails_sent, client_object,
                email_handler, excel_handler>>

\* lines 369-375: the loop test and the check for temporary files; attempts
\* holds one entry per sleep of 2 seconds, listed tells whether os.listdir
\* returned
WaitPollTemp ==
    /\ pc = "wait_poll"
    /\ IF Len(attempts) >= MaxPolls
       THEN /\ exc' = "FileDownloadTimeoutError"
            /\ pc' = "wait_raised"
            /\ attempts' = attempts
       ELSE \E listed \in BOOLEAN :
               IF ~listed
               THEN /\ exc' = "FileOperationError"
                    /\ pc' = "wait_raised"
                    /\ attempts' = attempts
               ELSE IF temp_files(download_dir) # {}
               THEN /\ attempts' = Append(attempts, "temp_files")
                    /\ pc' = "wait_poll"
                    /\ exc' = exc
               ELSE /\ pc' = "wait_list"
                    /\ UNCHANGED <<attempts, exc>>
    /\ UNCHANGED <<download_dir, files_todo, phases>>
    /\ WaitUntouched

\* lines 377-389: the second listing of the folder and the latest file
WaitListFiles ==
    /\ pc = "wait_list"
    /\ LET files == listed_files(download_dir, calls[1].expected_extension)
       IN IF files = {}
          THEN /\ attempts' = Append(attempts, "no_files")
               /\ pc' = "wait_poll"
               /\ files_todo' = files_todo
          ELSE /\ files_todo' = <<latest_file(download_dir, files)>>
               /\ pc' = "wait_exists"
               /\ attempts' = attempts
    /\ UNCHANGED <<download_dir, phases, exc>>
    /\ WaitUntouched

\* lines 391-396: the check for the .crdownload companion of the latest
\* file, then the return or the sleep
WaitCheckComplete ==
    /\ pc = "wait_exists"
    /\ IF \E k \in 1..Len(download_dir) : download_dir[k].name = files_todo[1] \o Crdownload
       THEN /\ attempts' = Append(attempts, "crdownload")
            /\ pc' = "wait_poll"
            /\ phases' = phases
       ELSE /\ phases' = <<files_todo[1]>>
            /\ pc' = "wait_returned"
            /\ attempts' = attempts
    /\ UNCHANGED <<download_dir, files_todo, exc>>
    /\ WaitUntouched

\* the browser starts writing a download under a temporary name
BrowserStart ==
    /\ pc \in {"wait_poll", "wait_list", "wait_exists"}
    /\ \E name \in DownloadNames, suffix \in TempSuffixes :
          /\ \A k \in 1..Len(download_dir) :
                \A s \in TempSuffixes \cup {<<>>} : download_dir[k].name # name \o s
          /\ download_dir' = Append(download_dir, [name |-> name \o suffix, kind |-> "file"])
    /\ UNCHANGED <<pc, attempts, files_todo, phases, exc>>
    /\ WaitUntouched

\* the browser completes a download and renames it to its final name
BrowserFinish ==
    /\ pc \in {"wait_poll", "wait_list", "wait_exists"}
    /\ \E k \in temp_files(download_dir), suffix \in TempSuffixes :
          /\ EndsWith(download_dir[k].name, suffix)
          /\ download_dir' =
                Append(SubSeq(download_dir, 1, k - 1) \o SubSeq(download_dir, k + 1, Len(download_dir)),
                       [name |-> SubSeq(download_dir[k].name, 1, Len(download_dir[k].name) - Len(suffix)),
                        kind |-> "file"])
    /\ UNCHANGED <<pc, attempts, files_todo, phases, exc>>
    /\ WaitUntouched

WaitNext ==
    \/ WaitPollTemp
    \/ WaitListFiles
    \/ WaitCheckComplete
    \/ BrowserStart
    \/ BrowserFinish

SpecWait == WaitInit /\ [][WaitNext]_vars

\* the steps of wait_for_file_download are taken by the calling thread, which
\* the scheduler does not starve; the browser may stop at any time
SpecWaitLive == SpecWait /\ WF_vars(WaitPollTemp \/ WaitListFiles \/ WaitCheckComplete)

----------------------------------------------------------------------------
(* Properties *)

Last(s) == s[Len(s)]

SuccessCount == Cardinality({i \in 1..Len(document_list) : document_list[i].download_status = "Success"})

\* a Document as it was passed in: its status fields blanked
Unmarked(d) == [d EXCEPT !.download_status = "", !.download_description = ""]

\* the calls that come first for their document id, in call order
RECURSIVE FirstOccurrences(_, _)
FirstOccurrences(s, seen) ==
    IF s = <<>> THEN <<>>
    ELSE IF Head(s).document_id \in seen THEN FirstOccurrences(Tail(s), seen)
    ELSE <<Head(s)>> \o FirstOccurrences(Tail(s), seen \cup {Head(s).document_id})

\* C1: a client whose every Document already has its file from a prior run,
\* with redownload-on-exists disabled, sees no single and no bulk export
\* click, and ends as "Success" with all documents counted as downloaded.
C1_IdempotentRerun ==
    ( /\ pc \in {"page", "single", "multi", "fallback_row", "zip_file", "next", "finish", "handler", "done"}
      /\ ~redownload_if_exists
      /\ max_total_documents > 0
      /\ Len(document_list) = max_total_documents
      /\ \A i \in 1..Len(document_list) : document_list[i].file_exists )
    => /\ \A k \in 1..Len(clicks) : clicks[k].kind \notin {"single", "bulk"}
       /\ (pc = "done" /\ exc = "") => (client_row.status = "Success" /\ SuccessCount = max_total_documents)

\* C2: document_list holds at most one Document per document_id, namely the
\* first one passed with that id, in call order; a call with an id already
\* present changes nothing in document_list.
C2_StoredAreFirstInserted ==
    /\ \A i, j \in 1..Len(document_list) :
          i # j => document_list[i].document_id # document_list[j].document_id
    /\ [i \in 1..Len(document_list) |-> Unmarked(document_list[i])] = FirstOccurrences(calls, {})

C2_DuplicateSuppression ==
    /\ []C2_StoredAreFirstInserted
    /\ [][ (calls' # calls /\ IndexOfId(document_list, Last(calls').document_id) # 0)
           => document_list' = document_list ]_vars

\* a duplicate id was passed after a stored document's status had been set
C2_Witness ==
    /\ pc = "client"
    /\ Len(calls) = 3
    /\ Len(document_list) = 2
    /\ calls[3].document_id = calls[1].document_id
    /\ calls[3] # calls[1]
    /\ document_list[1].download_status = "Success"

\* C3: on a page the retry loop makes at most DOWNLOAD_RETRY_COUNT attempts,
\* numbered 0, 1, ...; an attempt follows another only when that one raised
\* FileDownloadTimeoutError; any other exception of an attempt leaves
\* export_documents right after that attempt; a timeout of the last
\* permitted attempt leaves it as FileDownloadTimeoutError.
C3_RetryPolicy ==
    /\ Len(attempts) <= DOWNLOAD_RETRY_COUNT
    /\ \A i \in 1..Len(attempts) :
          /\ attempts[i].page = attempts[1].page
          /\ attempts[i].attempt = i - 1
          /\ i > 1 => attempts[i - 1].result = "FileDownloadTimeoutError"
          /\ attempts[i].result \notin {"running", "ok", "FileDownloadTimeoutError"}
                => /\ i = Len(attempts)
                   /\ pc \in {"handler", "done"}
                   /\ exc = attempts[i].result
          /\ (attempts[i].result = "FileDownloadTimeoutError" /\ i = DOWNLOAD_RETRY_COUNT)
                => /\ pc \in {"handler", "done"}
                   /\ exc = "FileDownloadTimeoutError"

\* every permitted attempt timed out and the timeout is on its way out
C3_Witness ==
    /\ pc = "handler"
    /\ Len(attempts) = DOWNLOAD_RETRY_COUNT
    /\ \A i \in 1..Len(attempts) : attempts[i].result = "FileDownloadTimeoutError"
    /\ exc = "FileDownloadTimeoutError"

\* the rows download_single_document_in_page was called for in attempt a
RowsInvoked(a) ==
    LET mine == SelectSeq(invocations, LAMBDA v : v.attempt = a)
    IN [k \in 1..Len(mine) |-> mine[k].row]

\* C4: when the bulk export control is disabled on a page with n rows, the
\* call ends normally having invoked the individual export for the rows
\* 0..n-1 in increasing order, whatever failure a row met.
C4_FallbackEveryRow ==
    \A i \in 1..Len(attempts) :
        (attempts[i].fallback /\ attempts[i].result # "running")
        => /\ attempts[i].result = "ok"
           /\ RowsInvoked(attempts[i].attempt)
                = [k \in 1..Len(RowsOnPage(document_list, attempts[i].page)) |-> k - 1]

\* C5: a timeout while waiting for the page's zip reaches the retry loop as
\* a FileDownloadTimeoutError (to be retried, and escalated after the last
\* attempt); it never counts as a completed attempt.
C5_BulkTimeoutRetried ==
    \A i \in 1..Len(attempts) :
        attempts[i].zip_timeout => attempts[i].result = "FileDownloadTimeoutError"

C7_MismatchAbortsOnlyDocument ==
    (invocations # <<>> /\ Last(invocations).mismatch) => pc \notin {"handler", "done"} \/ exc = ""

\* C8: when export_documents returned, the status written to the client's
\* row is "Success" if the number of "Success" documents equals
\* max_total_documents and "Warning" otherwise.
C8_TerminalOutcome ==
    (pc = "done" /\ exc = "" /\ max_total_documents > 0)
    => client_row.status = IF SuccessCount = max_total_documents THEN "Success" ELSE "Warning"

\* a partly downloaded client was written as "Warning"
C8_Witness ==
    /\ pc = "done"
    /\ exc = ""
    /\ SuccessCount >= 1
    /\ SuccessCount < max_total_documents
    /\ client_row.status = "Warning"

\* C9: a client whose search and listing succeeded is recorded as "Error"
\* only for a failed listing or navigation step, never for a per-document
\* failure (name mismatch, exhausted download timeouts, failed file move).
C9_NoClientErrorForDocumentFailures ==
    (pc = "done" /\ client_row.status = "Error")
    => /\ exc \notin {"FileDownloadTimeoutError", "FileOperationError"}
       /\ ~(invocations # <<>> /\ Last(invocations).mismatch)

\* C10 as stated: a single-document client's export always makes between 1
\* and DOWNLOAD_RETRY_COUNT single exports of row 0 on its one page.
C10_SingleAlwaysAttempts ==
    (pc = "finish" /\ max_total_documents = 1)
    => /\ page_num = 1
       /\ Len(attempts) \in 1..DOWNLOAD_RETRY_COUNT
       /\ \A k \in 1..Len(clicks) : clicks[k].kind = "single"

\* C10 amended: a single-document client's export stays on page 1, makes
\* only single exports of row 0, at most DOWNLOAD_RETRY_COUNT of them, no
\* bulk export and no next-page click; when export_documents returns it has
\* made at least one attempt if the table showed a row, none if it did not.
C10_SinglePage ==
    (max_total_documents = 1 /\ pc \in {"page", "single", "multi", "fallback_row", "zip_file", "next", "finish"})
    => /\ page_num = 1
       /\ pc \in {"page", "single", "finish"}
       /\ Len(attempts) <= DOWNLOAD_RETRY_COUNT
       /\ \A k \in 1..Len(attempts) : attempts[k].op = "single"
       /\ \A k \in 1..Len(invocations) : invocations[k].row = 0
       /\ \A k \in 1..Len(clicks) : clicks[k].kind = "single" /\ clicks[k].row = 0
       /\ pc = "finish"
            => IF Len(RowsOnPage(document_list, 1)) > 0
               THEN Len(attempts) >= 1 /\ Last(attempts).result = "ok"
               ELSE attempts = <<>> /\ clicks = <<>>

\* a single-document client succeeded at its second attempt
C10_Witness ==
    /\ pc = "finish"
    /\ max_total_documents = 1
    /\ Len(attempts) = 2
    /\ Len(clicks) = 2
    /\ SuccessCount = 1

\* C11: if after page p < total_pages the next-page control is not clicked
\* (absent or disabled), export_documents returns without raising and
\* without visiting a later page, and the client's outcome is then computed
\* from the downloaded count: "Success" or "Warning", not "Error".
C11_EarlyEndOfPagination ==
    /\ [][ (pc = "next" /\ page_num < total_pages /\ clicks' = clicks)
           => (pc' = "finish" /\ exc' = "" /\ page_num' = page_num) ]_vars
    /\ [][ pc = "finish"
           => /\ pc' = "done"
              /\ page_num' = page_num
              /\ exc' = ""
              /\ client_row'.status = (IF SuccessCount = max_total_documents THEN "Success" ELSE "Warning") ]_vars

\* paging ended after a processed page 1 of 2 and the outcome was written
C11_Witness ==
    /\ pc = "done"
    /\ exc = ""
    /\ page_num = 1
    /\ total_pages = 2
    /\ attempts # <<>>
    /\ Last(attempts).result = "ok"
    /\ clicks # <<>>
    /\ Last(clicks).kind = "bulk"
    /\ SuccessCount = 2
    /\ client_row.status = "Warning"

ClientLevelErrors == {"FolderCreationError", "WebNavigationError", "CSVExportError"}

C16_FolderInitAtomic ==
    phases = <<"initialize_folders">>
    => IF exc = ""
       THEN client_folder_path = InitializedFolderPath /\ InitializedFolders \subseteq folders
       ELSE exc = "FolderCreationError" /\ client_folder_path = <<>>

\* the client's folder was created, a category folder was not, and the
\* path is empty
C16_Witness ==
    /\ phases = <<"initialize_folders">>
    /\ exc = "FolderCreationError"
    /\ InitializedFolderPath \in folders
    /\ CategoryPath(InitializedFolderPath, "_Permanent") \in folders
    /\ CategoryPath(InitializedFolderPath, "Tax") \notin folders
    /\ client_folder_path = <<>>

\* C17: after any sequence of the Client's public folder operations,
\* client_folder_path is non-empty only if the client's folder and all five
\* category folders exist, and it is non-empty after an initialisation that
\* created them.
C17_FolderPathIffAllCreated ==
    /\ client_folder_path # <<>> => InitializedFolders \subseteq folders
    /\ (phases = <<"initialize_folders">> /\ exc = "") => client_folder_path # <<>>

\* C18: every Document owned by the Client stores the folder path, file
\* path and file_exists derived from the Client's current
\* client_folder_path (empty exactly when client_folder_path is empty).
C18_PathsFollowClientFolder ==
    \A i \in 1..Len(document_list) :
        /\ document_list[i] = update_paths(document_list[i], TRUE, client_folder_path, disk)
        /\ (document_list[i].document_folder_path = <<>>) = (client_folder_path = <<>>)

\* C19: after a single export click, if more than one file is present in
\* the staging directory the operation ends with an error, no file is moved
\* into the client's output tree and none of the files is deleted.
C19_StagingHoldsOneFile ==
    (invocations # <<>> /\ Last(invocations).clicked /\ Len(Last(invocations).staged) > 1)
    => /\ Last(invocations).result # "ok"
       /\ disk = Last(invocations).disk_before
       /\ Range(Last(invocations).staged) \subseteq Range(download_dir)

\* the client number a listing declares: the Client Number cell of its first
\* data row, blanks and quotes removed; <<>> where the listing has no such cell
DeclaredClientNumber(csv) ==
    IF Len(csv) < 2 \/ HeaderIndex(csv[1], "Client Number") = 0 THEN <<>>
    ELSE LET cell == csv[2][HeaderIndex(csv[1], "Client Number")]
             unspaced == SelectSeq(cell, LAMBDA c : c # " ")
         IN SelectSeq(unspaced, LAMBDA c : c # "\"")

DeclaresOtherClient(csv) ==
    /\ Len(csv) >= 2
    /\ HeaderIndex(csv[1], "Client Number") # 0
    /\ DeclaredClientNumber(csv) # TheClientNumber

\* C20: a listing whose declared client number differs from the requested
\* client's number is rejected: export_csv_file ends with CSVExportError, no
\* Document of the listing is added to the Client and no row is added to the
\* document log.
C20_ListingValidation ==
    [][(pc = "csv" /\ pc' # "csv" /\ DeclaresOtherClient(csv_file)
        /\ exc' \notin {"FileDownloadTimeoutError", "FileOperationError"})
       => /\ exc' = "CSVExportError"
          /\ document_list' = document_list
          /\ doc_rows' = doc_rows]_vars

C20_Witness ==
    /\ pc = "csv_failed"
    /\ exc = "CSVExportError"
    /\ DeclaresOtherClient(csv_file)
    /\ HeaderIndex(csv_file[1], "Document ID") # 0
    /\ document_list = <<>>

\* the key of a sheet row
LedgerKey(row) == <<row.client_name, row.client_number, row.doc_id>>

\* the keys of the documents the last export_csv_file call recorded
RecordedKeys(call) == {<<call.client.client_name, call.client.client_number, call.ids[i]>> : i \in 1..Len(call.ids)}

\* C21: the document sheet holds at most one row per (client_name,
\* client_number, document_id); a listing export adds rows only for documents
\* that have no row yet, and leaves the status columns of every existing row
\* as they were.
C21_LedgerDeduplication ==
    /\ [](\A i, j \in 1..Len(excel_handler.document_list_sheet) :
             LedgerKey(excel_handler.document_list_sheet[i]) = LedgerKey(excel_handler.document_list_sheet[j]) => i = j)
    /\ [][phases' = <<"export_csv_file">> =>
            LET old == excel_handler.document_list_sheet
                new == excel_handler'.document_list_sheet
            IN /\ Len(new) >= Len(old)
               /\ \A i \in 1..Len(old) : new[i] = old[i]
               /\ \A i \in (Len(old) + 1)..Len(new) :
                     /\ LedgerKey(new[i]) \in RecordedKeys(calls'[1])
                     /\ LedgerKey(new[i]) \notin {LedgerKey(old[k]) : k \in 1..Len(old)}
                     /\ new[i].download_status = ""]_vars

C21_Witness ==
    /\ pc = "ledger"
    /\ phases = <<"export_csv_file">>
    /\ \E i \in 1..Len(excel_handler.document_list_sheet) :
          /\ excel_handler.document_list_sheet[i].download_status = "Success"
          /\ LedgerKey(excel_handler.document_list_sheet[i]) \in RecordedKeys(calls[1])
    /\ \E i, j \in 1..Len(excel_handler.document_list_sheet) :
          /\ i # j
          /\ excel_handler.document_list_sheet[i].doc_id = excel_handler.document_list_sheet[j].doc_id

\* C22: once the client's export has ended, every Document whose
\* download_status is "Success" or "Error" has a row in the document log
\* carrying the same status and description.
C22_LedgerReflectsOutcome ==
    pc = "done" =>
        \A i \in 1..Len(document_list) :
            document_list[i].download_status \in {"Success", "Error"} =>
                /\ document_list[i].document_id \in DOMAIN doc_rows
                /\ doc_rows[document_list[i].document_id].status = document_list[i].download_status
                /\ doc_rows[document_list[i].document_id].desc = document_list[i].download_description

\* the Document shown in row `row` (0-based) of page `page`, <<>> if none
DocumentOfTableRow(page, row) ==
    LET ids == RowsOnPage(document_list, page)
    IN IF row + 1 \in 1..Len(ids) /\ IndexOfId(document_list, ids[row + 1]) # 0
       THEN <<document_list[IndexOfId(document_list, ids[row + 1])]>>
       ELSE <<>>

\* C26: be_executed() is true exactly for a downloadable Document whose file
\* does not exist or whose redownload is enabled, and an individual export is
\* clicked only for a Document whose be_executed() is true.
C26_ExportOnlyWhenEligible ==
    /\ \A i \in 1..Len(document_list) :
          be_executed(document_list[i], redownload_if_exists)
          <=> (document_list[i].downloadable
               /\ (~document_list[i].file_exists \/ redownload_if_exists))
    /\ \A k \in 1..Len(clicks) :
          clicks[k].kind = "single" =>
             LET shown == DocumentOfTableRow(clicks[k].page, clicks[k].row)
             IN shown # <<>> => be_executed(shown[1], redownload_if_exists)

\* a name with `_` and the id put immediately before its last dot
WithIdBeforeExtension(name, document_id) ==
    LET dot == LastIndexOf(name, ".")
    IN SubSeq(name, 1, dot - 1) \o <<"_">> \o document_id \o SubSeq(name, dot, Len(name))

\* C23: for every Document, whatever its fields (empty ones included),
\* document_name_with_id is document_name_without_id with "_" and the
\* document_id inserted immediately before the file extension.
C23_NameWithId ==
    pc = "constructed" =>
        document_list[1].document_name_with_id
            = WithIdBeforeExtension(document_list[1].document_name_without_id,
                                    document_list[1].document_id)

\* the fields of a Document that make up its name, empty ones left out, each
\* without the special characters
RECURSIVE StrippedNameFields(_)
StrippedNameFields(fields) ==
    IF fields = <<>> THEN <<>>
    ELSE IF Head(fields) = <<>> THEN StrippedNameFields(Tail(fields))
    ELSE <<SelectSeq(Head(fields), LAMBDA c : c \notin SpecialChars)>> \o StrippedNameFields(Tail(fields))

ExpectedNameWithoutId(doc) ==
    JoinUnderscore(StrippedNameFields(<<doc.client_name, doc.year, doc.document_type, doc.description>>))
        \o <<".">> \o (IF doc.file_type = <<>> THEN <<"p", "d", "f">> ELSE doc.file_type)

HasSpecialChar(text) == \E k \in 1..Len(text) : text[k] \in SpecialChars

\* C24 as stated: document_name_without_id is the non-empty fields
\* [client_name, year, document_type, description] joined with "_", then "."
\* and (file_type or "pdf"), and neither name holds any of \ / : * ? " < > |.
C24_CanonicalNameAnyField ==
    pc = "constructed" =>
        /\ document_list[1].document_name_without_id = ExpectedNameWithoutId(document_list[1])
        /\ ~HasSpecialChar(document_list[1].document_name_without_id)
        /\ ~HasSpecialChar(document_list[1].document_name_with_id)

\* C24: document_name_without_id is the non-empty fields [client_name, year,
\* document_type, description], each without the characters \ / : * ? " < > |,
\* joined with "_", then "." and (file_type or "pdf"); a name holds one of
\* these characters only if file_type or, for the name with id, document_id
\* holds one.
C24_CanonicalName ==
    pc = "constructed" =>
        /\ document_list[1].document_name_without_id = ExpectedNameWithoutId(document_list[1])
        /\ HasSpecialChar(document_list[1].document_name_without_id)
              => HasSpecialChar(document_list[1].file_type)
        /\ HasSpecialChar(document_list[1].document_name_with_id)
              => (HasSpecialChar(document_list[1].file_type) \/ HasSpecialChar(document_list[1].document_id))

C24_Witness ==
    /\ pc = "constructed"
    /\ HasSpecialChar(document_list[1].client_name)
    /\ HasSpecialChar(document_list[1].document_type)
    /\ document_list[1].year = <<>>
    /\ document_list[1].description # <<>>
    /\ document_list[1].file_type = <<>>
    /\ ~HasSpecialChar(document_list[1].document_name_with_id)

\* the category the claim's policy assigns to a section
CategoryOfSection(file_section) ==
    IF file_section = <<"B", "o", "o", "k", "k", "e", "e", "p", "i", "n", "g">>
    THEN "Accounting & Payroll" ELSE "Other"

\* a text without the blanks at its ends
Trimmed(text) ==
    LET inner == {k \in 1..Len(text) : text[k] # " "}
    IN IF inner = {} THEN <<>>
       ELSE SubSeq(text, CHOOSE k \in inner : \A j \in inner : k <= j,
                         CHOOSE k \in inner : \A j \in inner : j <= k)

IntegerYears ==
    {<<<<"2", "0", "1", "8">>, 2018>>, <<<<"2", "0", "1", "7">>, 2017>>,
     <<<<"2", "0", "2", "0">>, 2020>>, <<<<" ", "2", "0", "1", "8">>, 2018>>,
     <<<<"+", "2", "0", "1", "9">>, 2019>>, <<<<"2", "_", "0", "1", "7">>, 2017>>}

\* C27: a Document is downloadable exactly when its year is empty or reads
\* as an integer of at least 2018; a non-empty year that is no integer is not
\* downloadable ("2018" yes, "2017" no, "" yes, "abc" no).
C27_DownloadabilityBoundary ==
    pc = "constructed" =>
        /\ document_list[1].downloadable
              <=> \/ document_list[1].year = <<>>
                  \/ \E y \in IntegerYears : y[1] = document_list[1].year /\ y[2] >= 2018
        /\ document_list[1].year = <<"2", "0", "1", "8">> => document_list[1].downloadable
        /\ document_list[1].year = <<"2", "0", "1", "7">> => ~document_list[1].downloadable
        /\ document_list[1].year = <<"a", "b", "c">> => ~document_list[1].downloadable

C27_Witness ==
    /\ pc = "constructed"
    /\ document_list[1].year = <<"2", "0", "1", "8">>
    /\ document_list[1].downloadable

IsCeiling(n, total, per_page) == n * per_page >= total /\ (n - 1) * per_page < total

\* C28: total_pages is ceil(max_total_documents / items_per_page) for every
\* max_total_documents >= 0 and items_per_page >= 1 (120 and 50 give 3); the
\* page loop begins page 1 first and then each next page once, in increasing
\* order, and never works on a page beyond total_pages.
C28_PageCount ==
    /\ [](/\ \A total \in 0..MaxPageDocs, per_page \in 1..MaxPerPage :
                IsCeiling(compute_total_pages(total, per_page), total, per_page)
          /\ compute_total_pages(120, 50) = 3
          /\ pc \in {"page", "single", "multi", "fallback_row", "zip_file", "next"}
                => IsCeiling(total_pages, max_total_documents, NUMBER_ITEMS_PER_PAGE)
          /\ pc \in {"single", "multi", "fallback_row", "zip_file", "next"}
                => page_num \in 1..total_pages)
    /\ [][/\ pc' = "page" => \/ pc = "export" /\ page_num' = 1
                             \/ pc = "next" /\ page_num' = page_num + 1
          /\ (pc # "export" /\ page_num' # page_num) => pc' = "page"]_vars

C28_Witness ==
    /\ pc \in {"multi", "zip_file", "fallback_row"}
    /\ max_total_documents = 3
    /\ total_pages = 2
    /\ page_num = 2

NonStringValue(v) == v.type = "int" /\ v.text # <<"0">>

C31_NotificationBestEffort ==
    /\ [](exc # "SMTPException")
    /\ [][(pc = "run_handler" /\ client_object # 0 /\ consecutive_errors + 1 >= MAX_CONSECUTIVE_ERRORS)
          => /\ pc' = "run_end"
             /\ exc' = exc
             /\ client_index' = client_index
             /\ client_list'[client_index].status = "Error"
             /\ Len(emails_sent') = Len(emails_sent) + (IF email_handler THEN 1 ELSE 0)]_vars

\* the run halted at the threshold although the notification could not be sent
C31_Witness ==
    /\ pc = "run_end"
    /\ consecutive_errors = MAX_CONSECUTIVE_ERRORS
    /\ emails_sent = <<[kind |-> "critical_error", sent |-> FALSE]>>
    /\ client_list[client_index].status = "Error"

\* C32: in bulk mode every extracted file whose name equals, ignoring case,
\* the document_name_with_id of a Document is moved to that Document's path
\* and that Document becomes "Success", whatever the ids and the order of the
\* list, when the step raises nothing.
C32_CorrectOwnerDelivery ==
    [][ (pc = "zip_file" /\ files_todo # <<>> /\ pc' = "zip_file")
        => \A i \in 1..Len(document_list) :
              StrLower(Head(files_todo)) = StrLower(document_list[i].document_name_with_id)
              => /\ document_list[i].document_file_path \in disk'
                 /\ document_list'[i].download_status = "Success"
      ]_vars

\* C33: once the download_status of a Document is "Success", no later step of
\* the client's processing changes it.
C33_SuccessStable ==
    [][ \A i \in 1..Len(document_list) :
           (document_list[i].download_status = "Success" /\ i <= Len(document_list'))
           => document_list'[i].download_status = "Success"
      ]_vars

\* C34: while a page is processed in individual mode, no export click is
\* issued for a row whose Document already reached "Success" in an earlier
\* individual download of the same page, a retry of the page included.
C34_NoRepeatedExport ==
    [][ (pc = "fallback_row" /\ Len(clicks') > Len(clicks))
        => LET id == RowsOnPage(document_list, page_num)[row_index + 1]
           IN ~ \E k \in 1..Len(invocations) :
                   /\ invocations[k].page = page_num
                   /\ invocations[k].row = row_index
                   /\ invocations[k].result = "ok"
                   /\ document_list[IndexOfId(document_list, id)].download_status = "Success"
      ]_vars

\* C35: the run halts at the threshold only if the last
\* MAX_CONSECUTIVE_ERRORS processed clients all ended in "Error": every
\* client that finishes without a client-level error, a zero-document client
\* included, resets the counter.
C35_TrulyConsecutive ==
    (pc = "run_end" /\ exc # "UnboundLocalError" /\ consecutive_errors >= MAX_CONSECUTIVE_ERRORS)
    => /\ client_index >= MAX_CONSECUTIVE_ERRORS
       /\ \A k \in 0..(MAX_CONSECUTIVE_ERRORS - 1) :
             client_list[client_index - k].status = "Error"

\* C36: the values of an "Error" row are those of the failing client's own
\* Client object, and a failure below the threshold does not end the run
\* before the last client.
C36_ErrorRecordsOwnClient ==
    /\ \A i \in 1..Len(client_list) :
          client_list[i].status = "Error" => client_list[i].owner = i
    /\ (pc = "run_end" /\ consecutive_errors < MAX_CONSECUTIVE_ERRORS)
       => client_index > Len(client_list)

\* C37: a Document is "Success" only with its file at document_file_path, and
\* every file moved there out of the extraction folder leaves its Document
\* "Success", a failure of the Ledger update after the move included.
C37_SuccessIffDelivered ==
    /\ [](\A i \in 1..Len(document_list) :
             document_list[i].download_status = "Success"
             => document_list[i].document_file_path \in disk)
    /\ [][ (pc = "zip_file" /\ files_todo # <<>> /\ zip_folder' # zip_folder)
           => LET i == FindDocumentForFile(document_list, Head(files_todo))
              IN /\ document_list[i].document_file_path \in disk'
                 /\ document_list'[i].download_status = "Success"
         ]_vars

\* C38: in the legacy run loop, once consecutive_errors has reached the
\* threshold no further client is handed to process_client, and the
\* critical-error email is sent at most once in the run.
C38_LegacyHalts ==
    /\ \A k \in 1..Len(calls) : calls[k].errors_before < MAX_CONSECUTIVE_ERRORS
    /\ Cardinality({k \in 1..Len(emails_sent) : emails_sent[k].kind = "critical_error"}) <= 1

\* every call of wait_for_file_download ends, with a path or an exception
WaitTerminates == <>(pc \in {"wait_returned", "wait_raised"})

\* C39: wait_for_file_download returns a path only when no file ending in
\* .crdownload or .tmp is in the folder, the path is a regular file of the
\* folder with the expected extension, and the call ends either with such a
\* path or, the timeout elapsed, with FileDownloadTimeoutError.
C39_WaitProtocol ==
    /\ pc = "wait_returned"
       => /\ temp_files(download_dir) = {}
          /\ \E k \in listed_files(download_dir, calls[1].expected_extension) :
                download_dir[k].name = phases[1]
    /\ pc = "wait_raised"
       => /\ exc = "FileDownloadTimeoutError"
          /\ Len(attempts) >= MaxPolls

====
